---- MODULE Spec2Model ----
(***************************************************************************)
(* SmartSched AI engine: the timetable solvers (CSP, ILP, genetic), the    *)
(* shared conflict detector and scorer, the dispatcher and the HTTP        *)
(* endpoints (src/ai-engine/src).                                          *)
(*                                                                         *)
(* Conventions of the model                                                *)
(*  - A Python str that the code inspects (course name, specialization)    *)
(*    is a sequence of one-character strings; identifiers that the code    *)
(*    only compares for equality are TLA+ strings.                         *)
(*  - A float is an exact rational [num, den] with den > 0; rationals are  *)
(*    compared by cross multiplication.                                    *)
(*  - A wall-clock "HH:MM" string is the number of minutes since midnight  *)
(*    (strftime("%H:%M") of a datetime drops the date, hence the % 1440).  *)
(*  - A call into a solver library (CP-SAT, CBC) returns any assignment    *)
(*    that satisfies the constraints the code emitted (for CBC: any        *)
(*    assignment that also minimises the objective), or raises.            *)
(***************************************************************************)
EXTENDS Integers, Sequences, FiniteSets, TLC

VARIABLES
    request,          \* the OptimizationRequest being handled
    algorithm,        \* the engine name the dispatcher works with
    pc,               \* position of the handler being run
    timetable_slots,  \* a slot list handed to the shared scorer
    population,       \* GA: the local variable `population`
    generation,       \* GA: the loop variable `generation`
    evaluations,      \* GA: the fitness values _evaluate_population has assigned
                      \*     in the solve in progress
    best_individual,  \* GA: GeneticOptimizer.best_individual (instance field)
    result,           \* the OptimizationResult last returned
    violations,       \* the list validate_request last returned
    solves,           \* number of solves the engine instance has served
    results,          \* the dict optimize_with_multiple_algorithms returns
    optimization_results,  \* api.py: the module-level store of async jobs
    response,         \* the HTTP response of the endpoint last called
    calls,            \* the engine calls the handler being run has made
    background_tasks, \* api.py: the background tasks not yet run
    jobs              \* per job id: acceptances and stored results so far

(* the state of the HTTP service around the dispatcher *)
(* the state of the asynchronous jobs *)
async == <<optimization_results, background_tasks, jobs>>

service == <<results, response, calls, async>>

vars == <<request, algorithm, pc, timetable_slots, population, generation,
          evaluations, best_individual, result, violations, solves, results,
          optimization_results, response, calls, background_tasks, jobs>>

-----------------------------------------------------------------------------
(* Bounds of the model                                                     *)

MaxSlots == 3            \* longest slot list handed to the scorer directly
MaxSlotsPerDay == 1      \* largest config.slots_per_day of a solved request

(* Program constants                                                       *)

SlotDurationMinutes == 50     \* TimetableConfig.slot_duration_minutes
CollegeStartMinutes == 510    \* TimetableConfig.college_start_time "08:30"
MinutesPerDay == 1440         \* strftime("%H:%M") wraps at midnight

(* Python None held by a name whose other values are strings *)
None == "None"

(* Python None held by a name whose other values are objects *)
Null == [none |-> TRUE]

(* the job ids of the model: what a client passes as job_id, or uuid4 draws *)
JobIds == {"job-1", "job-2"}

(* no comparison run, no async job, no response yet *)
ServiceIdle ==
    /\ results = <<>>
    /\ optimization_results = <<>>
    /\ response = Null
    /\ calls = <<>>
    /\ background_tasks = <<>>
    /\ jobs = [id \in JobIds |-> [accepted |-> 0, stored |-> 0, pending |-> FALSE]]

-----------------------------------------------------------------------------
(* Generic helpers                                                         *)

Range(s) == {s[i] : i \in DOMAIN s}

Max(a, b) == IF a >= b THEN a ELSE b

Min(a, b) == IF a <= b THEN a ELSE b

RECURSIVE SumSeq(_)
SumSeq(s) == IF s = <<>> THEN 0 ELSE s[1] + SumSeq(Tail(s))

RECURSIVE SumSet(_, _)
(* sum of f[x] for x in S *)
SumSet(f, S) ==
    IF S = {} THEN 0
    ELSE LET x == CHOOSE y \in S : TRUE IN f[x] + SumSet(f, S \ {x})

(* exact rationals standing for Python floats *)
Rat(n, d) == [num |-> n, den |-> d]
RLe(a, b) == a.num * b.den <= b.num * a.den
RLt(a, b) == a.num * b.den < b.num * a.den
REq(a, b) == a.num * b.den = b.num * a.den
RAdd(a, b) == Rat(a.num * b.den + b.num * a.den, a.den * b.den)
RMax(a, b) == IF RLe(b, a) THEN a ELSE b
RMin(a, b) == IF RLe(a, b) THEN a ELSE b
RScale(k, a) == Rat(k * a.num, a.den)

RECURSIVE Gcd(_, _)
Gcd(a, b) == IF b = 0 THEN a ELSE Gcd(b, a % b)

(* lowest terms of a non-negative rational *)
RNorm(a) == LET g == Gcd(a.num, a.den) IN Rat(a.num \div g, a.den \div g)

-----------------------------------------------------------------------------
(* Domain model (models.py)                                                *)

Days == <<"Monday", "Tuesday", "Wednesday", "Thursday", "Friday">>

(* _generate_time_mapping: slot index -> start / end of the slot *)
TimeStart(config, slot) ==
    (config.college_start_time + slot * config.slot_duration_minutes) % MinutesPerDay

TimeEnd(config, slot) ==
    (config.college_start_time + (slot + 1) * config.slot_duration_minutes) % MinutesPerDay

TimetableSlot(day, ts, te, course_id, faculty_id, room_id) ==
    [day |-> day, time_start |-> ts, time_end |-> te, course_id |-> course_id,
     faculty_id |-> faculty_id, room_id |-> room_id, student_groups |-> <<course_id>>]

TimetableConfig(spd) ==
    [slots_per_day |-> spd, slot_duration_minutes |-> SlotDurationMinutes,
     college_start_time |-> CollegeStartMinutes]

-----------------------------------------------------------------------------
(* Shared conflict detector and scorer (base_optimizer.py)                 *)

TimeKey(slot) == <<slot.day, slot.time_start>>

RECURSIVE TimeKeysInOrder(_)
(* keys of the dict time_slots, in insertion order *)
TimeKeysInOrder(slots) ==
    IF slots = <<>> THEN <<>>
    ELSE LET init == SubSeq(slots, 1, Len(slots) - 1)
             last == slots[Len(slots)]
             keys == TimeKeysInOrder(init)
         IN IF TimeKey(last) \in Range(keys) THEN keys ELSE Append(keys, TimeKey(last))

(* an order-dependent grouping: a run of equal keys forms a group, as a
   group-by over adjacent elements would *)
RECURSIVE TimeSlotsAdjacentRuns(_)
TimeSlotsAdjacentRuns(slots) ==
    IF slots = <<>> THEN <<>>
    ELSE LET init == SubSeq(slots, 1, Len(slots) - 1)
             last == slots[Len(slots)]
             runs == TimeSlotsAdjacentRuns(init)
         IN IF runs # <<>> /\ TimeKey(runs[Len(runs)][1]) = TimeKey(last)
            THEN [runs EXCEPT ![Len(runs)] = Append(@, last)]
            ELSE Append(runs, <<last>>)

(* the dict time_slots as the list of its values: one slot list per key *)
TimeSlots(slots) ==
    LET keys == TimeKeysInOrder(slots)
    IN [g \in 1..Len(keys) |-> SelectSeq(slots, LAMBDA s : TimeKey(s) = keys[g])]

Conflict(type, resource, key, first, second) ==
    [type |-> type, resource |-> resource, time_key |-> key,
     affected_slots |-> <<first, second>>, severity |-> "critical"]

(* index of the slot the dict faculty_slots / room_slots holds for the
   resource of group[i] when group[i] is visited; 0 when it holds none *)
Previous(group, i, field) ==
    LET earlier == {j \in 1..(i - 1) : group[j][field] = group[i][field]}
    IN IF earlier = {} THEN 0 ELSE CHOOSE j \in earlier : \A k \in earlier : k <= j

(* a detector that reports a recurring resource once per group, however
   often it recurs *)
RECURSIVE ResourceConflictsOnce(_, _, _, _)
ResourceConflictsOnce(group, n, field, type) ==
    IF n = 0 THEN <<>>
    ELSE LET before == ResourceConflictsOnce(group, n - 1, field, type)
             p == Previous(group, n, field)
         IN IF p = 0 \/ Previous(group, p, field) # 0 THEN before
            ELSE Append(before, Conflict(type, group[n][field], TimeKey(group[n]),
                                         group[p].course_id, group[n].course_id))

RECURSIVE ResourceConflicts(_, _, _, _)
(* one pass of detect_conflicts over a group, slots 1..n of it *)
ResourceConflicts(group, n, field, type) ==
    IF n = 0 THEN <<>>
    ELSE LET before == ResourceConflicts(group, n - 1, field, type)
             p == Previous(group, n, field)
         IN IF p = 0 THEN before
            ELSE Append(before, Conflict(type, group[n][field], TimeKey(group[n]),
                                         group[p].course_id, group[n].course_id))

GroupConflicts(group) ==
    ResourceConflicts(group, Len(group), "faculty_id", "faculty_conflict")
        \o ResourceConflicts(group, Len(group), "room_id", "room_conflict")

RECURSIVE ConcatGroups(_, _)
ConcatGroups(groups, n) ==
    IF n = 0 THEN <<>> ELSE ConcatGroups(groups, n - 1) \o GroupConflicts(groups[n])

detect_conflicts(slots) ==
    LET groups == TimeSlots(slots) IN ConcatGroups(groups, Len(groups))

(* _calculate_workload_distribution (the same in the three engines) *)
calculate_workload_distribution(slots) ==
    LET ids == {slots[i].faculty_id : i \in DOMAIN slots} \ {""}
    IN [f \in ids |-> Cardinality({i \in DOMAIN slots : slots[i].faculty_id = f})]

(* variance of the values of a non-empty workload dict:
   sum((w - S/k)^2) / k  =  sum((k*w - S)^2) / k^3 *)
WorkloadVariance(workload) ==
    LET k == Cardinality(DOMAIN workload)
        S == SumSet(workload, DOMAIN workload)
        dev == [f \in DOMAIN workload |-> (k * workload[f] - S) * (k * workload[f] - S)]
    IN Rat(SumSet(dev, DOMAIN workload), k * k * k)

(* a scorer that does not clamp *)
ScoreUnclamped(conflicts, workload) ==
    LET base == Rat(100 - 5 * Len(conflicts), 1)
        bonus == IF DOMAIN workload = {} THEN Rat(0, 1)
                 ELSE LET v == WorkloadVariance(workload)
                      IN RMax(Rat(0, 1), Rat(20 * v.den - v.num, v.den))
    IN RAdd(base, bonus)

calculate_optimization_score(conflicts, workload) ==
    LET base == Rat(100 - 5 * Len(conflicts), 1)
        bonus == IF DOMAIN workload = {} THEN Rat(0, 1)
                 ELSE LET v == WorkloadVariance(workload)
                      IN RMax(Rat(0, 1), Rat(20 * v.den - v.num, v.den))
    IN RMax(Rat(0, 1), RMin(Rat(100, 1), RAdd(base, bonus)))

OptimizationResult(success, message, slots, conflicts, score, used, workload) ==
    [success |-> success, message |-> message, timetable_slots |-> slots,
     conflicts |-> conflicts, optimization_score |-> score,
     algorithm_used |-> used, workload_distribution |-> workload]

(* an engine that scores an extracted slot list without looking for
   conflicts *)
ScoredWithoutDetection(message, slots, used) ==
    LET workload == calculate_workload_distribution(slots)
    IN OptimizationResult(TRUE, message, slots, <<>>,
                          calculate_optimization_score(<<>>, workload), used, workload)

(* what an engine does with an extracted slot list: detect conflicts,
   compute the workload distribution, score *)
ScoredResult(message, slots, used) ==
    LET conflicts == detect_conflicts(slots)
        workload == calculate_workload_distribution(slots)
    IN OptimizationResult(TRUE, message, slots, conflicts,
                          calculate_optimization_score(conflicts, workload),
                          used, workload)

FailureResult(message, used) ==
    OptimizationResult(FALSE, message, <<>>, <<>>, Rat(0, 1), used, <<>>)

-----------------------------------------------------------------------------
(* Specification SpecScore: the shared scorer on arbitrary slot lists      *)

(* "" is the faculty_id of a slot without an assigned faculty member
   (csp_optimizer.py: `assigned_faculty or ""`) *)
ScoreFaculty == {"", "F1", "F2"}
ScoreRooms == {"R1", "R2"}
ScoreCourses == {"C1", "C2"}
ScoreDays == {"Monday", "Tuesday"}

ScoreSlotUniverse ==
    {TimetableSlot(d, TimeStart(TimetableConfig(1), 0), TimeEnd(TimetableConfig(1), 0), c, f, r) :
        d \in ScoreDays, c \in ScoreCourses, f \in ScoreFaculty, r \in ScoreRooms}

EmptyRequest ==
    [config |-> TimetableConfig(1), courses |-> <<>>, faculty |-> <<>>,
     rooms |-> <<>>, objectives |-> {}]

IdleInit ==
    /\ request = EmptyRequest
    /\ algorithm = None
    /\ timetable_slots = <<>>
    /\ population = <<>>
    /\ generation = 0
    /\ evaluations = {}
    /\ best_individual = Null
    /\ result = Null
    /\ violations = <<>>
    /\ solves = 0
    /\ ServiceIdle

ScoreInit == IdleInit /\ pc = "build"

AddSlot ==
    /\ pc = "build"
    /\ Len(timetable_slots) < MaxSlots
    /\ \E s \in ScoreSlotUniverse : timetable_slots' = Append(timetable_slots, s)
    /\ UNCHANGED service
    /\ UNCHANGED <<request, algorithm, pc, population, generation, evaluations, best_individual,
                   result, violations, solves>>

ScoreSlots ==
    /\ pc = "build"
    /\ result' = ScoredResult("scored", timetable_slots, "scorer")
    /\ pc' = "scored"
    /\ UNCHANGED service
    /\ UNCHANGED <<request, algorithm, timetable_slots, population, generation, evaluations,
                   best_individual, violations, solves>>

(* the caller reorders the slot list it holds, one transposition at a time *)
SwapSlots ==
    /\ pc = "scored"
    /\ \E i, j \in DOMAIN timetable_slots :
          /\ j = i + 1
          /\ timetable_slots[i] # timetable_slots[j]
          /\ timetable_slots' = [timetable_slots EXCEPT ![i] = timetable_slots[j],
                                                        ![j] = timetable_slots[i]]
    /\ UNCHANGED service
    /\ UNCHANGED <<request, algorithm, pc, population, generation, evaluations, best_individual,
                   result, violations, solves>>

ScoreNext == AddSlot \/ ScoreSlots \/ SwapSlots

SpecScore == ScoreInit /\ [][ScoreNext]_vars

(* C8: the shared scorer depends on the multiset of slots only: scoring any
   reordering of a scored slot list gives the same number of conflicts, the
   same workload distribution and the same score. *)
C8_ScorerOrderIndependent ==
    pc = "scored" =>
        LET again == ScoredResult("scored", timetable_slots, "scorer")
        IN /\ Len(again.conflicts) = Len(result.conflicts)
           /\ again.workload_distribution = result.workload_distribution
           /\ REq(again.optimization_score, result.optimization_score)

C8_Witness ==
    /\ pc = "scored"
    /\ timetable_slots # result.timetable_slots
    /\ Len(result.conflicts) >= 2
    /\ Cardinality(DOMAIN result.workload_distribution) = 2

(* the slots of a list held at one (day, time_start) by one resource *)
Occurrences(slots, key, field, resource) ==
    {i \in DOMAIN slots : TimeKey(slots[i]) = key /\ slots[i][field] = resource}

Reported(conflicts, key, type, resource) ==
    {n \in DOMAIN conflicts : /\ conflicts[n].time_key = key
                              /\ conflicts[n].type = type
                              /\ conflicts[n].resource = resource}

FieldOf(type) == IF type = "faculty_conflict" THEN "faculty_id" ELSE "room_id"

(* C18: detect_conflicts groups the slots by (day, time_start); it returns
   the empty list iff no faculty_id and no room_id occurs twice within one
   group; a faculty_id (room_id) occurring k times in a group yields k-1
   conflicts of type faculty_conflict (room_conflict); every conflict has
   severity critical and lists the course_ids of two colliding slots. *)
C18_ConflictsPerRecurrence ==
    pc = "scored" =>
        LET slots == result.timetable_slots
            conflicts == result.conflicts
            keys == {TimeKey(slots[i]) : i \in DOMAIN slots}
            Colliding(i, j, field) ==
                /\ i < j
                /\ TimeKey(slots[i]) = TimeKey(slots[j])
                /\ slots[i][field] = slots[j][field]
        IN /\ (conflicts = <<>>) <=>
                  ~ \E i, j \in DOMAIN slots :
                        Colliding(i, j, "faculty_id") \/ Colliding(i, j, "room_id")
           /\ \A key \in keys, type \in {"faculty_conflict", "room_conflict"} :
                 \A i \in DOMAIN slots :
                    LET resource == slots[i][FieldOf(type)]
                        k == Cardinality(Occurrences(slots, key, FieldOf(type), resource))
                    IN Cardinality(Reported(conflicts, key, type, resource)) = Max(0, k - 1)
           /\ \A n \in DOMAIN conflicts :
                 /\ conflicts[n].severity = "critical"
                 /\ conflicts[n].type \in {"faculty_conflict", "room_conflict"}
                 /\ conflicts[n].time_key \in keys
                 /\ \E i, j \in DOMAIN slots :
                       /\ Colliding(i, j, FieldOf(conflicts[n].type))
                       /\ TimeKey(slots[i]) = conflicts[n].time_key
                       /\ slots[i][FieldOf(conflicts[n].type)] = conflicts[n].resource
                       /\ conflicts[n].affected_slots
                              = <<slots[i].course_id, slots[j].course_id>>

(* a faculty member holds three slots of one group and a room two *)
C18_Witness ==
    /\ pc = "scored"
    /\ \E n \in DOMAIN result.conflicts :
          /\ result.conflicts[n].type = "faculty_conflict"
          /\ Cardinality(Reported(result.conflicts, result.conflicts[n].time_key,
                                  "faculty_conflict", result.conflicts[n].resource)) = 2
    /\ \E n \in DOMAIN result.conflicts :
          /\ result.conflicts[n].type = "room_conflict"
          /\ Cardinality(Reported(result.conflicts, result.conflicts[n].time_key,
                                  "room_conflict", result.conflicts[n].resource)) = 1
    /\ Cardinality({TimeKey(result.timetable_slots[i]) :
                        i \in DOMAIN result.timetable_slots}) = 1

(* variance of the values of a dict as mean of squares minus squared mean:
   (k * sum(w^2) - S^2) / k^2 *)
VarianceOfCounts(workload) ==
    LET k == Cardinality(DOMAIN workload)
        S == SumSet(workload, DOMAIN workload)
        squares == [f \in DOMAIN workload |-> workload[f] * workload[f]]
    IN Rat(k * SumSet(squares, DOMAIN workload) - S * S, k * k)

Clamp(x, lo, hi) == IF RLt(x, lo) THEN lo ELSE IF RLt(hi, x) THEN hi ELSE x

(* C19: calculate_optimization_score returns
   clamp(100 - 5*|conflicts| + bonus, 0, 100) with bonus = max(0, 20 - variance
   of the per-faculty slot counts) for a non-empty workload distribution and
   bonus = 0 for an empty one; a result without conflicts scores 100, and one
   more conflict with the workload unchanged never raises the score. *)
C19_ScoreFormula ==
    pc = "scored" =>
        LET conflicts == result.conflicts
            workload == result.workload_distribution
            counts == [f \in {result.timetable_slots[i].faculty_id :
                                  i \in DOMAIN result.timetable_slots} \ {""} |->
                          Cardinality({i \in DOMAIN result.timetable_slots :
                                          result.timetable_slots[i].faculty_id = f})]
            twenty == Rat(20, 1)
            bonus == IF DOMAIN counts = {} THEN Rat(0, 1)
                     ELSE IF RLt(twenty, VarianceOfCounts(counts)) THEN Rat(0, 1)
                     ELSE RAdd(twenty, RScale(-1, VarianceOfCounts(counts)))
            expected == Clamp(RAdd(Rat(100 - 5 * Len(conflicts), 1), bonus),
                              Rat(0, 1), Rat(100, 1))
            score == calculate_optimization_score(conflicts, workload)
            more == calculate_optimization_score(Append(conflicts, conflicts[1]), workload)
        IN /\ REq(score, expected)
           /\ conflicts = <<>> => REq(score, Rat(100, 1))
           /\ conflicts # <<>> => RLe(more, score)

(* four conflicts and no faculty assigned: the score is 80, and a fifth
   conflict lowers it *)
C19_Witness ==
    /\ pc = "scored"
    /\ Len(result.conflicts) = 4
    /\ DOMAIN result.workload_distribution = {}
    /\ REq(calculate_optimization_score(result.conflicts, result.workload_distribution),
           Rat(80, 1))
    /\ RLt(calculate_optimization_score(Append(result.conflicts, result.conflicts[1]),
                                        result.workload_distribution),
           Rat(80, 1))

(* unequal loads: the variance is positive and the bonus below 20 *)
C19_WitnessBonus ==
    /\ pc = "scored"
    /\ result.conflicts = <<>>
    /\ Cardinality({result.workload_distribution[f] :
                       f \in DOMAIN result.workload_distribution}) = 2

-----------------------------------------------------------------------------
(* Requests (models.py)                                                    *)

CourseData(id, code, name, credits, strength, requires_lab, consecutive) ==
    [id |-> id, code |-> code, name |-> name, credits |-> credits,
     student_strength |-> strength, requires_lab |-> requires_lab,
     consecutive_slots_required |-> consecutive]

FacultyData(id, specializations, max_workload_hours) ==
    [id |-> id, specializations |-> specializations,
     max_workload_hours |-> max_workload_hours]

RoomData(id, capacity) == [id |-> id, capacity |-> capacity]

OptimizationRequest(config, courses, faculty, rooms, objectives) ==
    [config |-> config, courses |-> courses, faculty |-> faculty,
     rooms |-> rooms, objectives |-> objectives]

CourseId(i) == "C" \o ToString(i)
FacultyId(i) == "F" \o ToString(i)
RoomId(i) == "R" \o ToString(i)

(* str.lower() on the alphabet of the model *)
LowerChar(c) ==
    CASE c = "M" -> "m"
      [] c = "A" -> "a"
      [] c = "P" -> "p"
      [] OTHER -> c

Lower(str) == [i \in DOMAIN str |-> LowerChar(str[i])]

(* Python's `sub in str` *)
IsSubstring(sub, str) ==
    \E i \in 0..(Len(str) - Len(sub)) : SubSeq(str, i + 1, i + Len(sub)) = sub

(* all sequences over S of length lo..hi *)
SeqsOf(S, lo, hi) == UNION {[1..n -> S] : n \in lo..hi}

-----------------------------------------------------------------------------
(* Validators of the three engines                                         *)

Violation(msg, code, need, have) == [msg |-> msg, code |-> code, need |-> need, have |-> have]

TotalCredits(req) == SumSeq([i \in DOMAIN req.courses |-> req.courses[i].credits])

(* a capacity total that never falls short of the course load *)
FacultyHoursUnchecked(req) == TotalCredits(req)

TotalFacultyHours(req) ==
    SumSeq([i \in DOMAIN req.faculty |-> req.faculty[i].max_workload_hours])

SuitableRooms(req, course) ==
    SelectSeq(req.rooms, LAMBDA r : r.capacity >= course.student_strength)

(* the courses for which a validator finds no suitable room *)
CoursesWithoutRoom(req) == SelectSeq(req.courses, LAMBDA c : SuitableRooms(req, c) = <<>>)

(* the three "No ... provided" checks GA and ILP share *)
ResourceViolations(req) ==
    (IF req.courses = <<>> THEN <<Violation("No courses provided", "", 0, 0)>> ELSE <<>>)
    \o (IF req.faculty = <<>> THEN <<Violation("No faculty provided", "", 0, 0)>> ELSE <<>>)
    \o (IF req.rooms = <<>> THEN <<Violation("No rooms provided", "", 0, 0)>> ELSE <<>>)

(* CSPOptimizer.validate_constraints *)
csp_validate_constraints(req) ==
    (IF TotalCredits(req) > TotalFacultyHours(req)
     THEN <<Violation("Insufficient faculty capacity for course load", "", 0, 0)>>
     ELSE <<>>)
    \o LET bad == CoursesWithoutRoom(req)
       IN [i \in DOMAIN bad |->
              Violation("No room with sufficient capacity for course", bad[i].code, 0, 0)]

(* GA: `spec in course.name.lower()`: the specialization is not lowered *)
GAQualified(f, course) ==
    \E i \in DOMAIN f.specializations : IsSubstring(f.specializations[i], Lower(course.name))

ga_qualified_faculty(req, course) == SelectSeq(req.faculty, LAMBDA f : GAQualified(f, course))

(* GeneticOptimizer.validate_constraints *)
ga_validate_constraints(req) ==
    ResourceViolations(req)
    \o LET bad == SelectSeq(req.courses, LAMBDA c : ga_qualified_faculty(req, c) = <<>>)
       IN [i \in DOMAIN bad |-> Violation("No qualified faculty for course", bad[i].code, 0, 0)]

(* ILPOptimizer.validate_constraints *)
ilp_validate_constraints(req) ==
    ResourceViolations(req)
    \o (IF TotalCredits(req) > TotalFacultyHours(req)
        THEN <<Violation("Insufficient faculty capacity: need hours, have",
                         "", TotalCredits(req), TotalFacultyHours(req))>>
        ELSE <<>>)
    \o LET bad == CoursesWithoutRoom(req)
       IN [i \in DOMAIN bad |->
              Violation("No room with sufficient capacity for course (needs seats)",
                        bad[i].code, bad[i].student_strength, 0)]

-----------------------------------------------------------------------------
(* Dispatcher (optimization_engine.py)                                     *)

(* OptimizationEngine.optimizers: a dict, iterated in insertion order *)
Optimizers == <<"csp", "genetic", "ilp">>

validate_constraints(name, req) ==
    CASE name = "csp" -> csp_validate_constraints(req)
      [] name = "genetic" -> ga_validate_constraints(req)
      [] name = "ilp" -> ilp_validate_constraints(req)

RECURSIVE AllViolations(_, _)
(* all_violations after the first n optimizers *)
AllViolations(req, n) ==
    IF n = 0 THEN <<>>
    ELSE AllViolations(req, n - 1) \o validate_constraints(Optimizers[n], req)

(* a validate_request that returns all_violations as collected *)
KeepDuplicates(all) == all

RECURSIVE RemoveDuplicates(_)
(* the loop over all_violations with the set `seen` *)
RemoveDuplicates(all) ==
    IF all = <<>> THEN <<>>
    ELSE LET unique == RemoveDuplicates(SubSeq(all, 1, Len(all) - 1))
             last == all[Len(all)]
         IN IF last \in Range(unique) THEN unique ELSE Append(unique, last)

validate_request(req) == RemoveDuplicates(AllViolations(req, Len(Optimizers)))

(* a size test that takes the boundary value into the smaller class *)
SizeBelowInclusive(size, limit) == size <= limit

SizeBelow(size, limit) == size < limit

(* OptimizationEngine._select_best_algorithm *)
select_best_algorithm(req) ==
    LET problem_size == Len(req.courses) * Len(req.faculty) * Len(req.rooms)
                            * req.config.slots_per_day * 5
    IN IF SizeBelow(problem_size, 1000) THEN "csp"
       ELSE IF SizeBelow(problem_size, 10000)
            THEN IF "minimize_conflicts" \in req.objectives THEN "ilp" ELSE "csp"
            ELSE "genetic"

-----------------------------------------------------------------------------
(* Specification SpecSelect: the dispatcher's choice of an engine          *)

MaxSelectCourses == 10      \* most courses of a request given to the selection
MaxSelectFaculty == 5       \* most faculty
MaxSelectRooms == 5         \* most rooms
MaxSelectSlotsPerDay == 8   \* largest slots_per_day

PlainCourse(i) == CourseData(CourseId(i), CourseId(i), <<"m">>, 1, 30, FALSE, 1)
PlainFaculty(i) == FacultyData(FacultyId(i), <<<<"m">>>>, 12)
PlainRoom(i) == RoomData(RoomId(i), 30)

ObjectiveSets == {{}, {"balance_workload"}, {"minimize_conflicts", "balance_workload"}}

SelectRequest(nc, nf, nr, spd, objs) ==
    OptimizationRequest(TimetableConfig(spd),
                        [i \in 1..nc |-> PlainCourse(i)],
                        [i \in 1..nf |-> PlainFaculty(i)],
                        [i \in 1..nr |-> PlainRoom(i)],
                        objs)

SelectInit ==
    /\ \E nc \in 0..MaxSelectCourses, nf \in 0..MaxSelectFaculty,
          nr \in 0..MaxSelectRooms, spd \in 1..MaxSelectSlotsPerDay,
          objs \in ObjectiveSets :
          request = SelectRequest(nc, nf, nr, spd, objs)
    /\ algorithm = None
    /\ pc = "select"
    /\ timetable_slots = <<>>
    /\ population = <<>>
    /\ generation = 0
    /\ evaluations = {}
    /\ best_individual = Null
    /\ result = Null
    /\ violations = <<>>
    /\ solves = 0
    /\ ServiceIdle

(* OptimizationEngine.optimize with algorithm = None, up to the choice *)
SelectAlgorithm ==
    /\ pc = "select"
    /\ algorithm' = select_best_algorithm(request)
    /\ pc' = "selected"
    /\ UNCHANGED service
    /\ UNCHANGED <<request, timetable_slots, population, generation, evaluations, best_individual,
                   result, violations, solves>>

SelectNext == SelectAlgorithm

SpecSelect == SelectInit /\ [][SelectNext]_vars

ProblemSize(req) ==
    Len(req.courses) * Len(req.faculty) * Len(req.rooms) * req.config.slots_per_day * 5

(* C9: with no algorithm named, the dispatcher selects csp for size < 1000,
   ilp for 1000 <= size < 10000 when minimize_conflicts is an objective and
   csp otherwise, genetic for size >= 10000, where
   size = |courses| * |faculty| * |rooms| * slots_per_day * 5. *)
C9_SelectionBySize ==
    pc = "selected" =>
        LET size == ProblemSize(request)
        IN /\ size < 1000 => algorithm = "csp"
           /\ (size >= 1000 /\ size < 10000 /\ "minimize_conflicts" \in request.objectives)
                 => algorithm = "ilp"
           /\ (size >= 1000 /\ size < 10000 /\ "minimize_conflicts" \notin request.objectives)
                 => algorithm = "csp"
           /\ size >= 10000 => algorithm = "genetic"

C9_Witness ==
    /\ pc = "selected"
    /\ ProblemSize(request) = 1000
    /\ "minimize_conflicts" \in request.objectives
    /\ algorithm = "ilp"

-----------------------------------------------------------------------------
(* Specification SpecValidate: validate_request on small requests          *)

MaxValidated == 2     \* most courses, faculty and rooms of a validated request

ValCourses ==
    {[code |-> code, name |-> <<"M", "a">>, strength |-> strength] :
        code \in {"X1", "X2"}, strength \in {30, 50}}

ValFaculty ==
    {[specializations |-> specs, cap |-> cap] :
        specs \in {<<<<"m">>>>, <<<<"x">>>>}, cap \in {0, 3}}

ValCapacities == {20, 40}

ValidatedRequest(cs, fs, rs) ==
    OptimizationRequest(TimetableConfig(1),
        [i \in DOMAIN cs |-> CourseData(CourseId(i), cs[i].code, cs[i].name, 2,
                                        cs[i].strength, FALSE, 1)],
        [i \in DOMAIN fs |-> FacultyData(FacultyId(i), fs[i].specializations, fs[i].cap)],
        [i \in DOMAIN rs |-> RoomData(RoomId(i), rs[i])],
        {})

ValidateInit ==
    /\ \E cs \in SeqsOf(ValCourses, 0, MaxValidated),
          fs \in SeqsOf(ValFaculty, 0, MaxValidated),
          rs \in SeqsOf(ValCapacities, 0, MaxValidated) :
          request = ValidatedRequest(cs, fs, rs)
    /\ algorithm = None
    /\ pc = "validate"
    /\ timetable_slots = <<>>
    /\ population = <<>>
    /\ generation = 0
    /\ evaluations = {}
    /\ best_individual = Null
    /\ result = Null
    /\ violations = <<>>
    /\ solves = 0
    /\ ServiceIdle

(* OptimizationEngine.validate_request *)
ValidateRequest ==
    /\ pc = "validate"
    /\ violations' = validate_request(request)
    /\ pc' = "validated"
    /\ UNCHANGED service
    /\ UNCHANGED <<request, algorithm, timetable_slots, population, generation, evaluations,
                   best_individual, result, solves>>

ValidateNext == ValidateRequest

SpecValidate == ValidateInit /\ [][ValidateNext]_vars

FirstIndex(s, x) == CHOOSE i \in DOMAIN s : s[i] = x /\ \A j \in 1..(i - 1) : s[j] # x

ValidatorOutputs(req) ==
    csp_validate_constraints(req) \o ga_validate_constraints(req) \o ilp_validate_constraints(req)

(* C10: validate_request returns exactly the messages of the CSP, GA and ILP
   validators, each once, ordered by first occurrence in the order CSP, GA,
   ILP; it is empty iff the three validators report nothing. *)
C10_ValidateIsOrderedUnion ==
    pc = "validated" =>
        LET all == ValidatorOutputs(request)
        IN /\ Range(violations) = Range(all)
           /\ \A i, j \in DOMAIN violations : i # j => violations[i] # violations[j]
           /\ \A i, j \in DOMAIN violations :
                 i < j => FirstIndex(all, violations[i]) < FirstIndex(all, violations[j])
           /\ violations = <<>> <=> /\ csp_validate_constraints(request) = <<>>
                                    /\ ga_validate_constraints(request) = <<>>
                                    /\ ilp_validate_constraints(request) = <<>>

(* a request on which two validators repeat a message and several differ *)
C10_Witness ==
    /\ pc = "validated"
    /\ Len(violations) >= 3
    /\ Len(ValidatorOutputs(request)) > Len(violations)
    /\ \E i \in DOMAIN violations :
          violations[i].msg = "No room with sufficient capacity for course"

-----------------------------------------------------------------------------
(* Helpers of the exact engines                                            *)

Indices(seq) == 1..Len(seq)

SlotIndices(req) == 0..(req.config.slots_per_day - 1)

RECURSIVE KSubsets(_, _)
(* the subsets of S with k elements *)
KSubsets(S, k) ==
    IF k = 0 THEN {{}}
    ELSE IF Cardinality(S) < k THEN {}
    ELSE LET x == CHOOSE y \in S : TRUE
         IN KSubsets(S \ {x}, k) \cup {T \cup {x} : T \in KSubsets(S \ {x}, k - 1)}

-----------------------------------------------------------------------------
(* ILP engine (ilp_optimizer.py)                                           *)
(* A schedule variable x[c, d, s, k, m] is the tuple <<c, d, s, k, m>> of  *)
(* the course's, faculty's and room's positions in the request, the day's  *)
(* position in Days and the slot index; an assignment of the binary        *)
(* variables is the set of tuples whose variable is 1.                     *)

(* _add_variables: the keys of self.variables['schedule'] of one course *)
ScheduleKeys(req, c) ==
    {<<c, d, s, k, m>> : d \in Indices(Days), s \in SlotIndices(req),
                         k \in Indices(req.faculty), m \in Indices(req.rooms)}

(* position of a key in the dict self.variables['schedule'] *)
ScheduleRank(req, key) ==
    ((((key[1] - 1) * Len(Days) + (key[2] - 1)) * req.config.slots_per_day + key[3])
        * Len(req.faculty) + (key[4] - 1)) * Len(req.rooms) + key[5]

(* Constraint 1: each course is scheduled for exactly its credit hours *)
CourseHours(req, x) ==
    \A c \in Indices(req.courses) :
        ScheduleKeys(req, c) # {} =>
            Cardinality({key \in x : key[1] = c}) = req.courses[c].credits

(* a faculty exclusivity that is not emitted *)
NoFacultyExclusivity(req, x) == TRUE

(* Constraint 2: one class per faculty and time slot *)
FacultyExclusivity(req, x) ==
    \A k \in Indices(req.faculty), d \in Indices(Days), s \in SlotIndices(req) :
        Cardinality({key \in x : key[2] = d /\ key[3] = s /\ key[4] = k}) <= 1

(* Constraint 3: one class per room and time slot *)
RoomExclusivity(req, x) ==
    \A m \in Indices(req.rooms), d \in Indices(Days), s \in SlotIndices(req) :
        Cardinality({key \in x : key[2] = d /\ key[3] = s /\ key[5] = m}) <= 1

ILPFeasible(req, x) ==
    /\ CourseHours(req, x)
    /\ FacultyExclusivity(req, x)
    /\ RoomExclusivity(req, x)

FacultyLoad(x, k) == Cardinality({key \in x : key[4] = k})

(* Constraint 4: least value of the slack overload[k] *)
Overload(req, x, k) == Max(0, FacultyLoad(x, k) - req.faculty[k].max_workload_hours)

(* Constraint 5: least value of the binary capacity_violation[c, m] *)
CapacityViolation(req, x, c, m) ==
    IF /\ req.rooms[m].capacity < req.courses[c].student_strength
       /\ \E key \in x : key[1] = c /\ key[5] = m
    THEN 1 ELSE 0

(* ILP: `spec.lower() in course.name.lower()` *)
ILPQualified(f, course) ==
    \E i \in DOMAIN f.specializations :
        IsSubstring(Lower(f.specializations[i]), Lower(course.name))

(* Constraint 6: least value of the binary qualification_penalty[c]; the
   variable exists when some but not all faculty are qualified *)
QualificationPenalty(req, x, c) ==
    LET qualified == {k \in Indices(req.faculty) : ILPQualified(req.faculty[k], req.courses[c])}
        unqualified == Indices(req.faculty) \ qualified
    IN IF /\ qualified # {}
          /\ unqualified # {}
          /\ ScheduleKeys(req, c) # {}
          /\ \E key \in x : key[1] = c /\ key[4] \in unqualified
       THEN 1 ELSE 0

(* _set_objective: least value of workload_diff[k1, k2] *)
WorkloadDiff(x, k1, k2) ==
    LET d == FacultyLoad(x, k1) - FacultyLoad(x, k2) IN IF d >= 0 THEN d ELSE 0 - d

(* _set_objective: the objective at the least slack values *)
Objective(req, x) ==
    LET F == Indices(req.faculty)
        C == Indices(req.courses)
        R == Indices(req.rooms)
        pairs == {p \in F \X F : p[1] < p[2]}
    IN 10 * SumSet([k \in F |-> Overload(req, x, k)], F)
       + 20 * SumSet([p \in C \X R |-> CapacityViolation(req, x, p[1], p[2])], C \X R)
       + 5 * SumSet([c \in C |-> QualificationPenalty(req, x, c)], C)
       + 2 * SumSet([p \in pairs |-> WorkloadDiff(x, p[1], p[2])], pairs)

RECURSIVE ILPCandidates(_, _)
(* the assignments of the variables of courses 1..n that give each course
   its credit hours *)
ILPCandidates(req, n) ==
    IF n = 0 THEN {{}}
    ELSE LET own == IF ScheduleKeys(req, n) = {} THEN {{}}
                    ELSE KSubsets(ScheduleKeys(req, n), req.courses[n].credits)
         IN {p[1] \cup p[2] : p \in ILPCandidates(req, n - 1) \X own}

(* the assignments that satisfy the hard constraints *)
ILPSolutions(req) ==
    {x \in ILPCandidates(req, Len(req.courses)) : ILPFeasible(req, x)}

(* what problem.solve leaves in the variables when the status is Optimal:
   a feasible assignment of least objective *)
ILPOptimal(req) ==
    LET feasible == ILPSolutions(req)
        costs == {Objective(req, x) : x \in feasible}
    IN IF feasible = {} THEN {}
       ELSE LET best == CHOOSE m \in costs : \A n \in costs : m <= n
            IN {x \in feasible : Objective(req, x) = best}

RECURSIVE ScheduleOrder(_, _, _)
(* the keys of x in the order of the dict self.variables['schedule'] *)
ScheduleOrder(req, x, acc) ==
    IF x = {} THEN acc
    ELSE LET key == CHOOSE y \in x : \A z \in x : ScheduleRank(req, y) <= ScheduleRank(req, z)
         IN ScheduleOrder(req, x \ {key}, Append(acc, key))

(* ILPOptimizer._extract_solution *)
ilp_extract_solution(req, x) ==
    LET keys == ScheduleOrder(req, x, <<>>)
    IN [i \in DOMAIN keys |->
           TimetableSlot(Days[keys[i][2]],
                         TimeStart(req.config, keys[i][3]), TimeEnd(req.config, keys[i][3]),
                         req.courses[keys[i][1]].id, req.faculty[keys[i][4]].id,
                         req.rooms[keys[i][5]].id)]

-----------------------------------------------------------------------------
(* CSP engine (csp_optimizer.py)                                           *)
(* An assignment of the Boolean variables is a record of three sets: the   *)
(* <<c, d, s>> with course_slot = 1, the <<c, k>> with faculty_assignment  *)
(* = 1 and the <<c, m>> with room_assignment = 1.                          *)

CSPAssignment(course_slot, faculty_assignment, room_assignment) ==
    [course_slot |-> course_slot, faculty_assignment |-> faculty_assignment,
     room_assignment |-> room_assignment]

CourseSlotKeys(req, c) == {<<c, d, s>> : d \in Indices(Days), s \in SlotIndices(req)}

SlotsOfCourse(a, c) == {t \in a.course_slot : t[1] = c}

(* sum(course_slots) == course.credits *)
CSPCourseHours(req, a, c) ==
    CourseSlotKeys(req, c) # {} =>
        Cardinality(SlotsOfCourse(a, c)) = req.courses[c].credits

(* sum(faculty_assignments) == 1 *)
CSPOneFaculty(req, a, c) ==
    req.faculty # <<>> => Cardinality({f \in a.faculty_assignment : f[1] = c}) = 1

(* sum(room_assignments) == 1 *)
CSPOneRoom(req, a, c) ==
    req.rooms # <<>> => Cardinality({r \in a.room_assignment : r[1] = c}) = 1

(* room_assignment[c, m] == 0 when the room is too small *)
CSPRoomCapacity(req, a, c) ==
    \A m \in Indices(req.rooms) :
        req.rooms[m].capacity < req.courses[c].student_strength
            => <<c, m>> \notin a.room_assignment

(* sum(faculty_assignment[c, k] * course_slot[c, d, s]) <= max_workload_hours *)
CSPWorkloadLimit(req, a) ==
    \A k \in Indices(req.faculty) :
        LET load == [c \in Indices(req.courses) |->
                        IF <<c, k>> \in a.faculty_assignment
                        THEN Cardinality(SlotsOfCourse(a, c)) ELSE 0]
        IN SumSet(load, Indices(req.courses)) <= req.faculty[k].max_workload_hours

(* the constraints that mention the variables of course c alone *)
CSPCourseFeasible(req, a, c) ==
    /\ CSPCourseHours(req, a, c)
    /\ CSPOneFaculty(req, a, c)
    /\ CSPOneRoom(req, a, c)
    /\ CSPRoomCapacity(req, a, c)

(* the values of the variables of course c that satisfy them *)
CSPCourseOptions(req, c) ==
    LET times == IF CourseSlotKeys(req, c) = {} THEN {{}}
                 ELSE KSubsets(CourseSlotKeys(req, c), req.courses[c].credits)
        facs == {{<<c, k>> : k \in K} : K \in SUBSET Indices(req.faculty)}
        rooms == {{<<c, m>> : m \in M} : M \in SUBSET Indices(req.rooms)}
    IN {a \in {CSPAssignment(t, f, r) : t \in times, f \in facs, r \in rooms} :
            CSPCourseFeasible(req, a, c)}

RECURSIVE CSPCandidates(_, _)
CSPCandidates(req, n) ==
    IF n = 0 THEN {CSPAssignment({}, {}, {})}
    ELSE {CSPAssignment(p[1].course_slot \cup p[2].course_slot,
                        p[1].faculty_assignment \cup p[2].faculty_assignment,
                        p[1].room_assignment \cup p[2].room_assignment) :
             p \in CSPCandidates(req, n - 1) \X CSPCourseOptions(req, n)}

(* CSPOptimizer._add_constraints: the assignments Solve may return with
   status OPTIMAL or FEASIBLE *)
CSPSolutions(req) ==
    {a \in CSPCandidates(req, Len(req.courses)) : CSPWorkloadLimit(req, a)}

(* first faculty / room whose assignment variable is 1, else "" *)
AssignedFaculty(req, a, c) ==
    LET ks == {k \in Indices(req.faculty) : <<c, k>> \in a.faculty_assignment}
    IN IF ks = {} THEN "" ELSE req.faculty[CHOOSE k \in ks : \A j \in ks : k <= j].id

AssignedRoom(req, a, c) ==
    LET ms == {m \in Indices(req.rooms) : <<c, m>> \in a.room_assignment}
    IN IF ms = {} THEN "" ELSE req.rooms[CHOOSE m \in ms : \A j \in ms : m <= j].id

CourseSlotRank(req, t) ==
    ((t[1] - 1) * Len(Days) + (t[2] - 1)) * req.config.slots_per_day + t[3]

RECURSIVE CourseSlotOrder(_, _, _)
(* the scheduled <<c, d, s>> in the order of the extraction loops *)
CourseSlotOrder(req, x, acc) ==
    IF x = {} THEN acc
    ELSE LET t == CHOOSE y \in x : \A z \in x : CourseSlotRank(req, y) <= CourseSlotRank(req, z)
         IN CourseSlotOrder(req, x \ {t}, Append(acc, t))

(* CSPOptimizer._extract_solution *)
csp_extract_solution(req, a) ==
    LET ts == CourseSlotOrder(req, a.course_slot, <<>>)
    IN [i \in DOMAIN ts |->
           TimetableSlot(Days[ts[i][2]],
                         TimeStart(req.config, ts[i][3]), TimeEnd(req.config, ts[i][3]),
                         req.courses[ts[i][1]].id,
                         AssignedFaculty(req, a, ts[i][1]),
                         AssignedRoom(req, a, ts[i][1]))]

-----------------------------------------------------------------------------
(* Specification SpecSolve: one solve by the CSP or the ILP engine         *)

MaxSolveCourses == 2     \* most courses of a request solved exactly
MaxCredits == 3          \* largest course.credits
MaxSolveFaculty == 3     \* most faculty of a request solved exactly
MaxSolveRooms == 2       \* most rooms of a request solved exactly
MaxCandidates == 2000    \* most assignments the ILP search enumerates

SolveCaps == {0, 2, 6}
SolveCapacities == {20, 40}
SolveStrength == 30

RECURSIVE Binomial(_, _)
Binomial(n, k) ==
    IF k = 0 THEN 1
    ELSE IF n < k THEN 0
    ELSE Binomial(n - 1, k) + Binomial(n - 1, k - 1)

RECURSIVE CandidateCount(_, _)
(* |ILPCandidates(req, n)| *)
CandidateCount(req, n) ==
    IF n = 0 THEN 1
    ELSE CandidateCount(req, n - 1)
            * Binomial(Len(Days) * req.config.slots_per_day * Len(req.faculty) * Len(req.rooms),
                       req.courses[n].credits)

(* course 1 is "Ma", the others are "p"; faculty 1 is specialised in "m",
   the others in "x" *)
SolveRequest(credits, caps, capacities, spd) ==
    OptimizationRequest(
        TimetableConfig(spd),
        [i \in DOMAIN credits |->
            CourseData(CourseId(i), CourseId(i),
                       IF i = 1 THEN <<"M", "a">> ELSE <<"p">>,
                       credits[i], SolveStrength, FALSE, 1)],
        [k \in DOMAIN caps |->
            FacultyData(FacultyId(k), IF k = 1 THEN << <<"m">> >> ELSE << <<"x">> >>, caps[k])],
        [m \in DOMAIN capacities |-> RoomData(RoomId(m), capacities[m])],
        {})

SolveInit ==
    /\ \E nc \in 1..MaxSolveCourses, nf \in 1..MaxSolveFaculty, nr \in 1..MaxSolveRooms :
       \E credits \in [1..nc -> 1..MaxCredits], caps \in [1..nf -> SolveCaps],
          capacities \in [1..nr -> SolveCapacities], spd \in 1..MaxSlotsPerDay :
            /\ request = SolveRequest(credits, caps, capacities, spd)
            /\ CandidateCount(request, nc) <= MaxCandidates
    /\ algorithm = None
    /\ pc = "ready"
    /\ timetable_slots = <<>>
    /\ population = <<>>
    /\ generation = 0
    /\ evaluations = {}
    /\ best_individual = Null
    /\ result = Null
    /\ violations = <<>>
    /\ solves = 0
    /\ ServiceIdle

(* str(e) of the exceptions of the model *)
LibraryError == "solver error"                    \* raised by CP-SAT or CBC
CrossoverError == "empty range for randrange()"   \* random.randint(1, 0)
RuntimeFailure == "out of memory"                 \* raised outside a try block

(* an except clause that returns the result of an unsolvable problem *)
ExceptAsNoSolution(used, detail) == FailureResult("No feasible solution found", used)

(* `except Exception as e` of an engine's optimize *)
ExceptResult(used, detail) == FailureResult("Optimization failed: " \o detail, used)

(* an engine's optimize returns res *)
Return(name, viols, res) ==
    /\ algorithm' = name
    /\ violations' = viols
    /\ result' = res
    /\ timetable_slots' = res.timetable_slots
    /\ pc' = "done"
    /\ UNCHANGED service
    /\ UNCHANGED <<request, population, generation, evaluations, best_individual, solves>>

(* CSPOptimizer.optimize: `if violations: return ...` *)
CSPRejects ==
    /\ pc = "ready"
    /\ csp_validate_constraints(request) # <<>>
    /\ Return("csp", csp_validate_constraints(request),
              FailureResult("Constraint violations", "CSP-OR-Tools"))

(* status OPTIMAL or FEASIBLE *)
CSPSolves ==
    /\ pc = "ready"
    /\ csp_validate_constraints(request) = <<>>
    /\ \E a \in CSPSolutions(request) :
          Return("csp", <<>>,
                 ScoredResult("Optimization completed successfully",
                              csp_extract_solution(request, a), "CSP-OR-Tools"))

(* any other status *)
CSPNoSolution ==
    /\ pc = "ready"
    /\ csp_validate_constraints(request) = <<>>
    /\ CSPSolutions(request) = {}
    /\ Return("csp", <<>>, FailureResult("No feasible solution found", "CSP-OR-Tools"))

(* `except Exception`: the library raises while the model is built or solved *)
CSPRaises ==
    /\ pc = "ready"
    /\ csp_validate_constraints(request) = <<>>
    /\ Return("csp", <<>>, ExceptResult("CSP-OR-Tools", LibraryError))

(* ILPOptimizer.optimize: `if violations: return ...` *)
ILPRejects ==
    /\ pc = "ready"
    /\ ilp_validate_constraints(request) # <<>>
    /\ Return("ilp", ilp_validate_constraints(request),
              FailureResult("Constraint violations", "ILP-PuLP"))

(* status LpStatusOptimal *)
ILPSolves ==
    /\ pc = "ready"
    /\ ilp_validate_constraints(request) = <<>>
    /\ \E x \in ILPOptimal(request) :
          Return("ilp", <<>>,
                 ScoredResult("Optimal solution found",
                              ilp_extract_solution(request, x), "ILP-PuLP"))

(* status LpStatusInfeasible *)
ILPInfeasible ==
    /\ pc = "ready"
    /\ ilp_validate_constraints(request) = <<>>
    /\ ILPSolutions(request) = {}
    /\ Return("ilp", <<>>,
              FailureResult("Problem is infeasible - no solution exists with given constraints",
                            "ILP-PuLP"))

(* `except Exception` *)
ILPRaises ==
    /\ pc = "ready"
    /\ ilp_validate_constraints(request) = <<>>
    /\ Return("ilp", <<>>, ExceptResult("ILP-PuLP", LibraryError))

SolveNext ==
    \/ CSPRejects
    \/ CSPSolves
    \/ CSPNoSolution
    \/ CSPRaises
    \/ ILPRejects
    \/ ILPSolves
    \/ ILPInfeasible
    \/ ILPRaises

SpecSolve == SolveInit /\ [][SolveNext]_vars

Succeeded(used) == pc = "done" /\ result.success /\ result.algorithm_used = used

SameTime(a, b) == a.day = b.day /\ a.time_start = b.time_start

SlotCount(slots, faculty_id) ==
    Cardinality({i \in DOMAIN slots : slots[i].faculty_id = faculty_id})

Overloaded(req, slots) ==
    {k \in Indices(req.faculty) :
        SlotCount(slots, req.faculty[k].id) > req.faculty[k].max_workload_hours}

(* C2: on every successful CSP or ILP result all slots of one course carry
   the same faculty_id and the same room_id *)
C2_OneFacultyAndRoomPerCourse ==
    (Succeeded("CSP-OR-Tools") \/ Succeeded("ILP-PuLP")) =>
        \A i, j \in DOMAIN result.timetable_slots :
            result.timetable_slots[i].course_id = result.timetable_slots[j].course_id
                => /\ result.timetable_slots[i].faculty_id = result.timetable_slots[j].faculty_id
                   /\ result.timetable_slots[i].room_id = result.timetable_slots[j].room_id

(* C3: on every successful ILP result no two slots at the same day and
   time_start share a faculty_id or a room_id, and conflicts is empty *)
C3_ILPNoDoubleBooking ==
    Succeeded("ILP-PuLP") =>
        /\ \A i, j \in DOMAIN result.timetable_slots :
              (i # j /\ SameTime(result.timetable_slots[i], result.timetable_slots[j]))
                  => /\ result.timetable_slots[i].faculty_id # result.timetable_slots[j].faculty_id
                     /\ result.timetable_slots[i].room_id # result.timetable_slots[j].room_id
        /\ result.conflicts = <<>>

(* a successful ILP result with two classes at the same day and time *)
C3_Witness ==
    /\ Succeeded("ILP-PuLP")
    /\ \E i, j \in DOMAIN result.timetable_slots :
          i # j /\ SameTime(result.timetable_slots[i], result.timetable_slots[j])

(* C4 as stated: on every successful ILP result every faculty has at most
   max_workload_hours slots *)
C4_ILPWorkloadWithinCap ==
    Succeeded("ILP-PuLP") => Overloaded(request, result.timetable_slots) = {}

(* C4 amended: the cap is soft for the ILP engine.  On every successful ILP
   result workload_distribution counts the slots of each faculty that has
   any, and the slots of all faculty together do not exceed the sum of the
   caps; one faculty may exceed its own cap *)
C4_ILPTotalWorkloadWithinTotalCap ==
    Succeeded("ILP-PuLP") =>
        /\ \A k \in Indices(request.faculty) :
              LET id == request.faculty[k].id
                  n == SlotCount(result.timetable_slots, id)
              IN IF n = 0 THEN id \notin DOMAIN result.workload_distribution
                 ELSE /\ id \in DOMAIN result.workload_distribution
                      /\ result.workload_distribution[id] = n
        /\ SumSet(result.workload_distribution, DOMAIN result.workload_distribution)
              <= SumSeq([k \in DOMAIN request.faculty |-> request.faculty[k].max_workload_hours])

(* a successful ILP result with a faculty above its cap *)
C4_Witness ==
    /\ Succeeded("ILP-PuLP")
    /\ Overloaded(request, result.timetable_slots) # {}

-----------------------------------------------------------------------------
(* Genetic engine (genetic_optimizer.py)                                   *)

PopulationSize == 1      \* GeneticOptimizer.population_size
Generations == 2         \* GeneticOptimizer.generations
TournamentSize == 5      \* tournament_size of _selection

(* class Individual: fitness is 0.0 until _evaluate_population assigns it;
   conflicts, workload_balance and room_utilization are read only by
   _calculate_fitness and are folded into it *)
Individual(slots, fitness) == [timetable_slots |-> slots, fitness |-> fitness]

NewIndividual(slots) == Individual(slots, Rat(0, 1))

(* the day sequences of the blocks the lab branch of
   _create_random_individual lays out: one block per day of a random
   permutation of the days, at slot indices 0..L-1, while a block still fits *)
LabBlockDays(req, course) ==
    LET L == course.consecutive_slots_required
        n == IF course.requires_lab /\ L > 1 /\ req.config.slots_per_day >= L
             THEN Min(Len(Days), course.credits \div L) ELSE 0
    IN {ds \in [1..n -> Indices(Days)] : \A i, j \in 1..n : i # j => ds[i] # ds[j]}

(* the slot lists _create_random_individual can build for one course *)
CourseGenes(req, c) ==
    LET course == req.courses[c]
        qualified == ga_qualified_faculty(req, course)
        facs == IF qualified = <<>> THEN req.faculty ELSE qualified
        suitable == SuitableRooms(req, course)
        rooms == IF suitable = <<>> THEN req.rooms ELSE suitable
        L == course.consecutive_slots_required
        Gene(f, r, d, slot) ==
            TimetableSlot(Days[d], TimeStart(req.config, slot), TimeEnd(req.config, slot),
                          course.id, f.id, r.id)
    IN {[i \in 1..course.credits |->
            IF i <= Len(ds) * L
            THEN Gene(f, r, ds[((i - 1) \div L) + 1], (i - 1) % L)
            ELSE Gene(f, r, fill[i][1], fill[i][2])] :
          f \in Range(facs), r \in Range(rooms), ds \in LabBlockDays(req, course),
          fill \in [1..course.credits -> Indices(Days) \X SlotIndices(req)]}

RECURSIVE RandomSlotLists(_, _)
(* _create_random_individual: the slot lists of courses 1..n *)
RandomSlotLists(req, n) ==
    IF n = 0 THEN {<<>>}
    ELSE {a \o g : a \in RandomSlotLists(req, n - 1), g \in CourseGenes(req, n)}

(* _initialize_population *)
initialize_population(req) ==
    LET lists == RandomSlotLists(req, Len(req.courses))
    IN {[i \in 1..PopulationSize |-> NewIndividual(ls[i])] :
            ls \in [1..PopulationSize -> lists]}

(* _calculate_workload_balance: 1 - variance / mean^2, clamped to [0, 1];
   variance / mean^2 = sum((k*w - S)^2) / (k * S^2) *)
calculate_workload_balance(slots) ==
    LET workload == calculate_workload_distribution(slots)
        k == Cardinality(DOMAIN workload)
        S == SumSet(workload, DOMAIN workload)
        dev == [f \in DOMAIN workload |-> (k * workload[f] - S) * (k * workload[f] - S)]
        spread == SumSet(dev, DOMAIN workload)
    IN IF k = 0 THEN Rat(0, 1)
       ELSE IF k <= 1 THEN Rat(1, 1)
       ELSE RMax(Rat(0, 1), RMin(Rat(1, 1), Rat(k * S * S - spread, k * S * S)))

(* _calculate_room_utilization *)
calculate_room_utilization(req, slots) ==
    IF req.rooms = <<>> \/ slots = <<>> THEN Rat(0, 1)
    ELSE RMin(Rat(1, 1), Rat(Len(slots), Len(req.rooms) * req.config.slots_per_day * 5))

(* _calculate_preference_satisfaction: the placeholder 0.5 *)
calculate_preference_satisfaction == Rat(1, 2)

(* _calculate_fitness *)
calculate_fitness(req, slots) ==
    RNorm(RMax(Rat(0, 1),
        RAdd(Rat(100 - 10 * Len(detect_conflicts(slots)), 1),
             RAdd(RScale(20, calculate_workload_balance(slots)),
                  RAdd(RScale(10, calculate_room_utilization(req, slots)),
                       RScale(5, calculate_preference_satisfaction))))))

(* _evaluate_population *)
evaluate_population(pop, req) ==
    [i \in DOMAIN pop |->
        Individual(pop[i].timetable_slots, calculate_fitness(req, pop[i].timetable_slots))]

(* the fitness values of a population *)
Fitnesses(pop) == {pop[i].fitness : i \in DOMAIN pop}

(* the individuals a tournament can return: max() keeps the first individual
   of greatest fitness of a random sample, given in random order *)
TournamentWinners(pop) ==
    {pop[i] : i \in {w \in DOMAIN pop :
        \E T \in KSubsets(DOMAIN pop, Min(TournamentSize, Len(pop))) :
            w \in T /\ \A j \in T : RLe(pop[j].fitness, pop[w].fitness)}}

(* _selection *)
selection(pop) == [1..PopulationSize -> TournamentWinners(pop)]

(* _crossover raises ValueError: random.randint(1, 0) *)
CrossoverRaises(parent1, parent2) ==
    Min(Len(parent1.timetable_slots), Len(parent2.timetable_slots)) - 1 < 1

(* a crossover that puts the tail of one parent before the head of the other *)
CrossoverSwapsHalves(parent1, parent2) ==
    LET s1 == parent1.timetable_slots
        s2 == parent2.timetable_slots
    IN {<<NewIndividual(SubSeq(s2, cut + 1, Len(s2)) \o SubSeq(s1, 1, cut)),
          NewIndividual(SubSeq(s1, cut + 1, Len(s1)) \o SubSeq(s2, 1, cut))>> :
            cut \in 1..(Min(Len(s1), Len(s2)) - 1)}

(* _crossover *)
crossover(parent1, parent2) ==
    LET s1 == parent1.timetable_slots
        s2 == parent2.timetable_slots
    IN {<<NewIndividual(SubSeq(s1, 1, cut) \o SubSeq(s2, cut + 1, Len(s2))),
          NewIndividual(SubSeq(s2, 1, cut) \o SubSeq(s1, cut + 1, Len(s1)))>> :
            cut \in 1..(Min(Len(s1), Len(s2)) - 1)}

(* a mutation that redraws day, faculty and room of every slot *)
MutateEverySlot(individual, req) ==
    IF individual.timetable_slots = <<>> THEN {individual}
    ELSE {NewIndividual([i \in DOMAIN individual.timetable_slots |->
                            [individual.timetable_slots[i] EXCEPT
                                !.day = Days[d], !.faculty_id = req.faculty[k].id,
                                !.room_id = req.rooms[m].id]]) :
            d \in Indices(Days), k \in Indices(req.faculty), m \in Indices(req.rooms)}

(* _mutate: new_slots is a copy of the individual's list, with one element
   replaced *)
mutate(individual, req) ==
    IF individual.timetable_slots = <<>> THEN {individual}
    ELSE {NewIndividual([individual.timetable_slots EXCEPT
                            ![i] = [@ EXCEPT !.day = Days[d],
                                             !.faculty_id = req.faculty[k].id,
                                             !.room_id = req.rooms[m].id]]) :
            i \in DOMAIN individual.timetable_slots, d \in Indices(Days),
            k \in Indices(req.faculty), m \in Indices(req.rooms)}

(* the two children of one pair of parents: crossed over or not, each
   mutated or not *)
PairChildren(parent1, parent2, req) ==
    LET kids == {<<parent1, parent2>>} \cup crossover(parent1, parent2)
    IN UNION {({k[1]} \cup mutate(k[1], req)) \X ({k[2]} \cup mutate(k[2], req)) : k \in kids}

RECURSIVE Offspring(_, _, _)
(* the loop of _crossover_and_mutation from position i on *)
Offspring(pop, req, i) ==
    IF i > Len(pop) THEN {<<>>}
    ELSE LET parent1 == pop[i]
             parent2 == IF i + 1 <= Len(pop) THEN pop[i + 1] ELSE pop[1]
         IN {<<k[1], k[2]>> \o rest :
                k \in PairChildren(parent1, parent2, req),
                rest \in Offspring(pop, req, i + 2)}

(* _crossover_and_mutation: new_population[:population_size] *)
crossover_and_mutation(pop, req) ==
    {SubSeq(s, 1, Min(Len(s), PopulationSize)) : s \in Offspring(pop, req, 1)}

(* some pair of parents on which _crossover raises *)
CrossoverCanRaise(pop) ==
    \E i \in DOMAIN pop :
        /\ i % 2 = 1
        /\ CrossoverRaises(pop[i], IF i + 1 <= Len(pop) THEN pop[i + 1] ELSE pop[1])

(* max(population, key=fitness): the first individual of greatest fitness *)
BestOf(pop) ==
    pop[CHOOSE i \in DOMAIN pop :
            /\ \A j \in DOMAIN pop : RLe(pop[j].fitness, pop[i].fitness)
            /\ \A j \in 1..(i - 1) : RLt(pop[j].fitness, pop[i].fitness)]

(* self.best_individual: an Individual, with the note whether the object is
   a member of the population of the solve in progress, so that
   _evaluate_population assigns its fitness too *)
Tracked(individual, in_population) ==
    [timetable_slots |-> individual.timetable_slots, fitness |-> individual.fitness,
     in_population |-> in_population]

(* self.best_individual after _evaluate_population *)
EvaluatedBest(best, req) ==
    IF best = Null \/ ~best.in_population THEN best
    ELSE Tracked(Individual(best.timetable_slots,
                            calculate_fitness(req, best.timetable_slots)), TRUE)

(* "Track best solution" *)
TrackBest(best, candidate) ==
    IF best = Null \/ RLt(best.fitness, candidate.fitness)
    THEN Tracked(candidate, TRUE) ELSE best

(* best_individual.fitness >= 100.0 *)
PerfectSolution(individual) == RLe(Rat(100, 1), individual.fitness)

(* "Extract best solution" *)
GAResult(best) ==
    IF best # Null
    THEN OptimizationResult(TRUE, "Optimization completed after generations",
                            best.timetable_slots, detect_conflicts(best.timetable_slots),
                            best.fitness, "Genetic-Algorithm",
                            calculate_workload_distribution(best.timetable_slots))
    ELSE FailureResult("Failed to generate valid solution", "Genetic-Algorithm")

-----------------------------------------------------------------------------
(* Specification SpecGA: solves by the genetic engine of one dispatcher    *)

MaxSolves == 2           \* solves issued to the engine
MaxGACredits == 2        \* largest course.credits of a request
GAFaculty == 2           \* faculty of a request

GACaps == {1}
GASpecializations == {<<"m">>, <<"M">>}

(* one course "Ma"; every faculty has one specialization *)
GARequest(credits, specs, caps) ==
    OptimizationRequest(
        TimetableConfig(1),
        <<CourseData(CourseId(1), CourseId(1), <<"M", "a">>, credits, SolveStrength, FALSE, 1)>>,
        [k \in DOMAIN caps |-> FacultyData(FacultyId(k), <<specs[k]>>, caps[k])],
        <<RoomData(RoomId(1), 40)>>,
        {})

GARequests ==
    {GARequest(credits, specs, caps) :
        credits \in 1..MaxGACredits,
        specs \in [1..GAFaculty -> GASpecializations], caps \in [1..GAFaculty -> GACaps]}

GAInit ==
    /\ request \in GARequests
    /\ algorithm = None
    /\ pc = "ready"
    /\ timetable_slots = <<>>
    /\ population = <<>>
    /\ generation = 0
    /\ evaluations = {}
    /\ best_individual = Null
    /\ result = Null
    /\ violations = <<>>
    /\ solves = 0
    /\ ServiceIdle

(* GeneticOptimizer.optimize returns res *)
GAReturn(viols, res) ==
    /\ algorithm' = "genetic"
    /\ violations' = viols
    /\ result' = res
    /\ timetable_slots' = res.timetable_slots
    /\ pc' = "done"
    /\ UNCHANGED service
    /\ UNCHANGED <<request, solves>>

(* `if violations: return ...` *)
GARejects ==
    /\ pc = "ready"
    /\ ga_validate_constraints(request) # <<>>
    /\ GAReturn(ga_validate_constraints(request),
                FailureResult("Constraint violations", "Genetic-Algorithm"))
    /\ UNCHANGED <<population, generation, evaluations, best_individual>>

(* population = self._initialize_population(request) *)
GAInitialize ==
    /\ pc = "ready"
    /\ ga_validate_constraints(request) = <<>>
    /\ population' \in initialize_population(request)
    /\ generation' = 0
    /\ evaluations' = {}
    /\ best_individual' = IF best_individual = Null THEN Null
                          ELSE [best_individual EXCEPT !.in_population = FALSE]
    /\ pc' = "evolve"
    /\ UNCHANGED service
    /\ UNCHANGED <<request, algorithm, timetable_slots, result, violations, solves>>

(* one iteration of `for generation in range(self.generations)` *)
GAGeneration ==
    /\ pc = "evolve"
    /\ LET evaluated == evaluate_population(population, request)
           best == EvaluatedBest(best_individual, request)
       IN \E selected \in selection(evaluated) :
          \E next \in crossover_and_mutation(selected, request) :
             /\ population' = next
             /\ evaluations' = evaluations \cup Fitnesses(evaluated)
             /\ best_individual' = TrackBest(best, BestOf(next))
             /\ IF PerfectSolution(BestOf(next)) \/ generation + 1 >= Generations
                THEN pc' = "extract" /\ generation' = generation
                ELSE pc' = "evolve" /\ generation' = generation + 1
    /\ UNCHANGED service
    /\ UNCHANGED <<request, algorithm, timetable_slots, result, violations, solves>>

(* `except Exception`: _crossover raises in this iteration *)
GACrossoverRaises ==
    /\ pc = "evolve"
    /\ \E selected \in selection(evaluate_population(population, request)) :
          CrossoverCanRaise(selected)
    /\ population' = evaluate_population(population, request)
    /\ evaluations' = evaluations \cup Fitnesses(evaluate_population(population, request))
    /\ best_individual' = EvaluatedBest(best_individual, request)
    /\ GAReturn(<<>>, ExceptResult("Genetic-Algorithm", CrossoverError))
    /\ UNCHANGED generation

(* `if self.best_individual: ... else: ...` after the loop *)
GAExtract ==
    /\ pc = "extract"
    /\ GAReturn(<<>>, GAResult(best_individual))
    /\ UNCHANGED <<population, generation, evaluations, best_individual>>

(* the module-level engine of api.py receives the next request *)
NextRequest ==
    /\ pc = "done"
    /\ solves + 1 < MaxSolves
    /\ solves' = solves + 1
    /\ request' \in GARequests
    /\ pc' = "ready"
    /\ algorithm' = None
    /\ timetable_slots' = <<>>
    /\ population' = <<>>
    /\ generation' = 0
    /\ evaluations' = {}
    /\ result' = Null
    /\ violations' = <<>>
    /\ UNCHANGED service
    /\ UNCHANGED best_individual

GANext ==
    \/ GARejects
    \/ GAInitialize
    \/ GAGeneration
    \/ GACrossoverRaises
    \/ GAExtract
    \/ NextRequest

SpecGA == GAInit /\ [][GANext]_vars

(* C1: on every successful result, for every course of the request the
   number of output slots with the course's id equals its credits *)
C1_CreditCount ==
    (pc = "done" /\ result.success) =>
        \A c \in Indices(request.courses) :
            Cardinality({i \in DOMAIN result.timetable_slots :
                            result.timetable_slots[i].course_id = request.courses[c].id})
                = request.courses[c].credits

(* C5: a successful CSP or GA result that gives a faculty more slots than
   its max_workload_hours has a conflicts entry other than a time collision,
   or a score below the score of the same slots under caps nobody exceeds *)
C5_OverloadReportedOrPenalised ==
    ((Succeeded("CSP-OR-Tools") \/ Succeeded("Genetic-Algorithm"))
        /\ Overloaded(request, result.timetable_slots) # {}) =>
        LET relaxed == [request EXCEPT !.faculty =
                           [k \in DOMAIN request.faculty |->
                               [request.faculty[k] EXCEPT
                                   !.max_workload_hours = Len(result.timetable_slots)]]]
            unpenalised == IF result.algorithm_used = "Genetic-Algorithm"
                           THEN calculate_fitness(relaxed, result.timetable_slots)
                           ELSE calculate_optimization_score(result.conflicts,
                                                             result.workload_distribution)
        IN \/ \E i \in DOMAIN result.conflicts :
                 result.conflicts[i].type \notin {"faculty_conflict", "room_conflict"}
           \/ RLt(result.optimization_score, unpenalised)

(* C6: every returned result has 0 <= optimization_score <= 100 *)
C6_ScoreWithinBounds ==
    pc = "done" =>
        /\ RLe(Rat(0, 1), result.optimization_score)
        /\ RLe(result.optimization_score, Rat(100, 1))

(* C7: the optimization_score of a successful GA result is the value of the
   shared scorer on the result's conflicts and workload_distribution *)
C7_GAScoreIsSharedScore ==
    Succeeded("Genetic-Algorithm") =>
        REq(result.optimization_score,
            calculate_optimization_score(result.conflicts, result.workload_distribution))

-----------------------------------------------------------------------------
(* The engines as the dispatcher calls them                                *)

(* one call of an engine's optimize: the result it returns, whether an
   exception was raised ("no"; "caught": inside the try block; "escaped":
   before it, so that the call itself raises), str(e), and
   GeneticOptimizer.best_individual after the call *)
Outcome(res, raised, detail, best) ==
    [result |-> res, raised |-> raised, detail |-> detail, best |-> best]

(* CSPOptimizer.optimize *)
csp_optimize(req, best) ==
    IF csp_validate_constraints(req) # <<>>
    THEN {Outcome(FailureResult("Constraint violations", "CSP-OR-Tools"), "no", "", best)}
    ELSE {Outcome(ScoredResult("Optimization completed successfully",
                               csp_extract_solution(req, a), "CSP-OR-Tools"), "no", "", best) :
             a \in CSPSolutions(req)}
         \cup (IF CSPSolutions(req) = {}
               THEN {Outcome(FailureResult("No feasible solution found", "CSP-OR-Tools"),
                             "no", "", best)}
               ELSE {})
         \cup {Outcome(ExceptResult("CSP-OR-Tools", LibraryError), "caught", LibraryError, best)}

(* ILPOptimizer.optimize *)
ilp_optimize(req, best) ==
    IF ilp_validate_constraints(req) # <<>>
    THEN {Outcome(FailureResult("Constraint violations", "ILP-PuLP"), "no", "", best)}
    ELSE {Outcome(ScoredResult("Optimal solution found",
                               ilp_extract_solution(req, x), "ILP-PuLP"), "no", "", best) :
             x \in ILPOptimal(req)}
         \cup (IF ILPSolutions(req) = {}
               THEN {Outcome(FailureResult(
                                "Problem is infeasible - no solution exists with given constraints",
                                "ILP-PuLP"), "no", "", best)}
               ELSE {})
         \cup {Outcome(ExceptResult("ILP-PuLP", LibraryError), "caught", LibraryError, best)}

RECURSIVE ga_evolve(_, _, _, _)
(* the evolution loop of GeneticOptimizer.optimize from iteration gen on:
   the pairs <<an exception was raised, self.best_individual>> it can end in *)
ga_evolve(req, pop, gen, best) ==
    LET evaluated == evaluate_population(pop, req)
        tracked == EvaluatedBest(best, req)
        raising == IF \E selected \in selection(evaluated) : CrossoverCanRaise(selected)
                   THEN {<<TRUE, tracked>>} ELSE {}
        offspring == UNION {crossover_and_mutation(selected, req) :
                               selected \in selection(evaluated)}
    IN raising \cup
       UNION {LET kept == TrackBest(tracked, BestOf(next))
              IN IF PerfectSolution(BestOf(next)) \/ gen + 1 >= Generations
                 THEN {<<FALSE, kept>>}
                 ELSE ga_evolve(req, next, gen + 1, kept) : next \in offspring}

(* GeneticOptimizer.optimize *)
ga_optimize(req, best) ==
    IF ga_validate_constraints(req) # <<>>
    THEN {Outcome(FailureResult("Constraint violations", "Genetic-Algorithm"), "no", "", best)}
    ELSE LET left == IF best = Null THEN Null ELSE [best EXCEPT !.in_population = FALSE]
         IN UNION {{IF e[1]
                    THEN Outcome(ExceptResult("Genetic-Algorithm", CrossoverError),
                                 "caught", CrossoverError, e[2])
                    ELSE Outcome(GAResult(e[2]), "no", "", e[2]) :
                       e \in ga_evolve(req, pop, 0, left)} :
                   pop \in initialize_population(req)}

(* optimizer.optimize(request) as a call: it returns, or it raises before
   the engine's try block is entered *)
engine_optimize(name, req, best) ==
    {Outcome(Null, "escaped", RuntimeFailure, best)} \cup
    CASE name = "csp" -> csp_optimize(req, best)
      [] name = "genetic" -> ga_optimize(req, best)
      [] name = "ilp" -> ilp_optimize(req, best)

(* the record of one engine call in `calls` *)
EngineCall(name, outcome) ==
    [engine |-> name, raised |-> outcome.raised, detail |-> outcome.detail,
     returned |-> outcome.result]

-----------------------------------------------------------------------------
(* The dispatcher (optimization_engine.py), continued                      *)

(* str(list(self.optimizers.keys())) *)
AvailableList == "['csp', 'genetic', 'ilp']"

(* OptimizationEngine.optimize: `if algorithm not in self.optimizers` *)
UnknownAlgorithm(name) ==
    FailureResult("Unknown algorithm: " \o name \o ". Available: " \o AvailableList, name)

(* what a method of the dispatcher does: the value it returns (or the
   exception it raises), best_individual afterwards, the engine calls made *)
Dispatched(value, escaped, best, made) ==
    [value |-> value, escaped |-> escaped, best |-> best, calls |-> made]

(* a dispatcher that falls back to its own choice on an unknown name *)
DispatchFallsBack(req, alg, best) ==
    LET name == IF alg \in Range(Optimizers) THEN alg ELSE select_best_algorithm(req)
    IN {Dispatched(o.result, o.raised = "escaped", o.best, <<EngineCall(name, o)>>) :
           o \in engine_optimize(name, req, best)}

(* OptimizationEngine.optimize *)
engine_dispatch(req, alg, best) ==
    LET name == IF alg = None THEN select_best_algorithm(req) ELSE alg
    IN IF name \notin Range(Optimizers)
       THEN {Dispatched(UnknownAlgorithm(name), FALSE, best, <<>>)}
       ELSE {Dispatched(o.result, o.raised = "escaped", o.best, <<EngineCall(name, o)>>) :
                o \in engine_optimize(name, req, best)}

(* optimize_with_multiple_algorithms: `except Exception as e` *)
TrappedFailure(name, detail) ==
    FailureResult("Algorithm " \o name \o " failed: " \o detail, name)

(* an entry of the dict `results` *)
Entry(name, res) == [name |-> name, result |-> res]

RECURSIVE CompareStopsAtFailure(_, _, _)
(* a comparison that gives up the remaining engines once a call has raised *)
CompareStopsAtFailure(req, best, n) ==
    IF n = 0 THEN {Dispatched(<<>>, FALSE, best, <<>>)}
    ELSE UNION {IF \E i \in DOMAIN run.calls : run.calls[i].raised = "escaped"
                THEN {run}
                ELSE {Dispatched(
                         Append(run.value,
                                Entry(Optimizers[n],
                                      IF o.raised = "escaped"
                                      THEN TrappedFailure(Optimizers[n], o.detail)
                                      ELSE o.result)),
                         FALSE, o.best, Append(run.calls, EngineCall(Optimizers[n], o))) :
                       o \in engine_optimize(Optimizers[n], req, run.best)} :
                run \in CompareStopsAtFailure(req, best, n - 1)}

RECURSIVE compare_runs(_, _, _)
(* optimize_with_multiple_algorithms after the first n optimizers *)
compare_runs(req, best, n) ==
    IF n = 0 THEN {Dispatched(<<>>, FALSE, best, <<>>)}
    ELSE UNION {{Dispatched(
                    Append(run.value,
                           Entry(Optimizers[n],
                                 IF o.raised = "escaped"
                                 THEN TrappedFailure(Optimizers[n], o.detail)
                                 ELSE o.result)),
                    FALSE, o.best, Append(run.calls, EngineCall(Optimizers[n], o))) :
                  o \in engine_optimize(Optimizers[n], req, run.best)} :
                run \in compare_runs(req, best, n - 1)}

optimize_with_multiple_algorithms(req, best) == compare_runs(req, best, Len(Optimizers))

(* OptimizationEngine.get_best_result; max() keeps the first of the greatest.
   On an empty dict `list(results.values())[0]` raises IndexError: the
   operator is applied to non-empty dicts only *)
get_best_result(entries) ==
    LET successful == SelectSeq(entries, LAMBDA en : en.result.success)
        best == CHOOSE i \in DOMAIN successful :
                   /\ \A j \in DOMAIN successful :
                         RLe(successful[j].result.optimization_score,
                             successful[i].result.optimization_score)
                   /\ \A j \in 1..(i - 1) :
                         RLt(successful[j].result.optimization_score,
                             successful[i].result.optimization_score)
    IN IF successful = <<>> THEN entries[1].result ELSE successful[best].result

-----------------------------------------------------------------------------
(* The HTTP endpoints (api.py)                                             *)

(* what a client receives: a returned value (status 200) or the
   HTTPException FastAPI turns into an error response *)
Response(status, body) == [status |-> status, body |-> body]

(* raise HTTPException(status_code=400, detail={...}) *)
ValidationFailed(viols) ==
    Response(400, [message |-> "Request validation failed", violations |-> viols])

(* `except Exception as e: raise HTTPException(status_code=500, ...)` around
   the body of an endpoint; `raised` is the exception caught, an
   HTTPException raised in the body included *)
EndpointExcept(message, raised) ==
    Response(500, [message |-> message, error |-> raised])

(* an exception other than HTTPException, with its str(e) *)
Raised(detail) == [raised |-> detail]

(* the body of the response of /optimize/compare *)
Comparison(entries, best) ==
    [results |-> entries,
     best_algorithm |-> best.algorithm_used,
     best_score |-> best.optimization_score,
     successful_algorithms |->
         LET ok == SelectSeq(entries, LAMBDA en : en.result.success)
         IN [i \in DOMAIN ok |-> ok[i].name],
     failed_algorithms |->
         LET ko == SelectSeq(entries, LAMBDA en : ~en.result.success)
         IN [i \in DOMAIN ko |-> ko[i].name]]

-----------------------------------------------------------------------------
(* Specification SpecService: requests served by the module-level          *)
(* dispatcher of api.py, directly and through /optimize, /optimize/compare *)

MaxServiceCalls == 2      \* requests served by the dispatcher instance
MaxServiceCredits == 1    \* largest course.credits of a request

ServiceCaps == {0, 1}
ServiceSpecializations == {<<"m">>, <<"x">>}
ServiceAlgorithms == {None, "csp", "genetic", "ilp", "quantum"}

(* one course "Ma", one faculty, one room *)
ServiceRequest(credits, spec, cap) ==
    OptimizationRequest(
        TimetableConfig(1),
        <<CourseData(CourseId(1), CourseId(1), <<"M", "a">>, credits, SolveStrength, FALSE, 1)>>,
        <<FacultyData(FacultyId(1), <<spec>>, cap)>>,
        <<RoomData(RoomId(1), 40)>>,
        {})

Arrives ==
    /\ \E credits \in 1..MaxServiceCredits, spec \in ServiceSpecializations,
          cap \in ServiceCaps :
          request' = ServiceRequest(credits, spec, cap)
    /\ algorithm' \in ServiceAlgorithms

ServiceInit ==
    /\ \E credits \in 1..MaxServiceCredits, spec \in ServiceSpecializations,
          cap \in ServiceCaps :
          request = ServiceRequest(credits, spec, cap)
    /\ algorithm \in ServiceAlgorithms
    /\ pc = "ready"
    /\ timetable_slots = <<>>
    /\ population = <<>>
    /\ generation = 0
    /\ evaluations = {}
    /\ best_individual = Null
    /\ result = Null
    /\ violations = <<>>
    /\ solves = 0
    /\ ServiceIdle

(* a caller invokes OptimizationEngine.optimize(request, algorithm) *)
EngineOptimize ==
    /\ pc = "ready"
    /\ \E d \in engine_dispatch(request, algorithm, best_individual) :
          /\ result' = IF d.escaped THEN Raised(RuntimeFailure) ELSE d.value
          /\ best_individual' = d.best
          /\ calls' = d.calls
    /\ pc' = "optimize_returned"
    /\ UNCHANGED <<request, algorithm, timetable_slots, population, generation, evaluations,
                   violations, solves, results, async, response>>

(* a caller invokes OptimizationEngine.optimize_with_multiple_algorithms *)
EngineCompare ==
    /\ pc = "ready"
    /\ \E d \in optimize_with_multiple_algorithms(request, best_individual) :
          /\ results' = d.value
          /\ best_individual' = d.best
          /\ calls' = d.calls
    /\ pc' = "compare_returned"
    /\ UNCHANGED <<request, algorithm, timetable_slots, population, generation, evaluations,
                   result, violations, solves, async, response>>

(* POST /optimize *)
PostOptimize ==
    /\ pc = "ready"
    /\ violations' = validate_request(request)
    /\ IF validate_request(request) # <<>>
       THEN /\ response' = EndpointExcept("Optimization failed",
                                          ValidationFailed(validate_request(request)))
            /\ UNCHANGED <<result, best_individual, calls>>
       ELSE \E d \in engine_dispatch(request, algorithm, best_individual) :
               /\ response' = IF d.escaped
                              THEN EndpointExcept("Optimization failed", Raised(RuntimeFailure))
                              ELSE Response(200, d.value)
               /\ result' = IF d.escaped THEN Raised(RuntimeFailure) ELSE d.value
               /\ best_individual' = d.best
               /\ calls' = d.calls
    /\ pc' = "optimize_answered"
    /\ UNCHANGED <<request, algorithm, timetable_slots, population, generation, evaluations,
                   solves, results, async>>

(* POST /optimize/compare *)
PostCompare ==
    /\ pc = "ready"
    /\ violations' = validate_request(request)
    /\ IF validate_request(request) # <<>>
       THEN /\ response' = EndpointExcept("Algorithm comparison failed",
                                          ValidationFailed(validate_request(request)))
            /\ UNCHANGED <<results, best_individual, calls>>
       ELSE \E d \in optimize_with_multiple_algorithms(request, best_individual) :
               /\ results' = d.value
               /\ response' = Response(200, Comparison(d.value, get_best_result(d.value)))
               /\ best_individual' = d.best
               /\ calls' = d.calls
    /\ pc' = "compare_answered"
    /\ UNCHANGED <<request, algorithm, timetable_slots, population, generation, evaluations,
                   result, solves, async>>

(* the next request reaches the service *)
Receive ==
    /\ pc # "ready"
    /\ solves + 1 < MaxServiceCalls
    /\ solves' = solves + 1
    /\ Arrives
    /\ pc' = "ready"
    /\ result' = Null
    /\ violations' = <<>>
    /\ results' = <<>>
    /\ response' = Null
    /\ calls' = <<>>
    /\ UNCHANGED <<timetable_slots, population, generation, evaluations, best_individual, async>>

ServiceNext ==
    \/ EngineOptimize
    \/ EngineCompare
    \/ PostOptimize
    \/ PostCompare
    \/ Receive

SpecService == ServiceInit /\ [][ServiceNext]_vars

(* the comparison has run: directly, or behind a 200 of /optimize/compare *)
Compared ==
    \/ pc = "compare_returned"
    \/ pc = "compare_answered" /\ response.status = 200

(* a failure result as the dispatcher and the engines build it *)
IsFailure(res) ==
    /\ res.success = FALSE
    /\ res.timetable_slots = <<>>
    /\ REq(res.optimization_score, Rat(0, 1))

(* C11 as stated, with "identifies that entry of results" read as the key of
   the entry: get_best_result returns a successful result of greatest
   optimization_score, or a failed result of the map when none succeeded,
   and best_algorithm of the /optimize/compare response is the key under
   which results holds that result. *)
C11_BestAlgorithmIsKey ==
    (pc = "compare_answered" /\ response.status = 200) =>
        \E i \in DOMAIN response.body.results :
            /\ response.body.results[i].name = response.body.best_algorithm
            /\ response.body.results[i].result = get_best_result(results)

(* the part of C11 that the code meets: get_best_result returns an entry of
   the map; when some entry is successful it is successful and no successful
   entry has a greater optimization_score; otherwise it is a failed entry.
   The /optimize/compare response carries the map, and best_algorithm and
   best_score are algorithm_used and optimization_score of that result;
   exactly one entry of results has that algorithm_used, the best one. *)
BestResultOfMap ==
    Compared =>
        LET best == get_best_result(results)
            successful == {i \in DOMAIN results : results[i].result.success}
        IN /\ \E i \in DOMAIN results : results[i].result = best
           /\ successful # {} =>
                 /\ best.success
                 /\ \A i \in successful :
                       RLe(results[i].result.optimization_score, best.optimization_score)
           /\ successful = {} => ~best.success
           /\ pc = "compare_answered" =>
                 /\ response.body.results = results
                 /\ response.body.best_algorithm = best.algorithm_used
                 /\ REq(response.body.best_score, best.optimization_score)
                 /\ \A i \in DOMAIN results :
                       results[i].result.algorithm_used = response.body.best_algorithm
                           => results[i].result = best
                 /\ Cardinality({i \in DOMAIN results :
                                    results[i].result.algorithm_used
                                        = response.body.best_algorithm}) = 1

(* the three engines succeed and the second entry has the greatest score *)
BestResultOfMapReached ==
    /\ pc = "compare_answered"
    /\ response.status = 200
    /\ \A i \in DOMAIN results : results[i].result.success
    /\ RLt(results[1].result.optimization_score, results[2].result.optimization_score)
    /\ response.body.best_algorithm = "Genetic-Algorithm"
    /\ response.body.best_algorithm \notin {results[i].name : i \in DOMAIN results}

(* C12: optimize_with_multiple_algorithms calls the engines in the order
   csp, genetic, ilp and returns a map with exactly these keys; the entry of
   an engine whose call raises is a failure result (success false, no slots,
   score 0), and the entry of every other engine is the result that engine
   returned. *)
C12_CompareTrapsFailures ==
    Compared =>
        /\ [i \in DOMAIN results |-> results[i].name] = <<"csp", "genetic", "ilp">>
        /\ [i \in DOMAIN calls |-> calls[i].engine] = <<"csp", "genetic", "ilp">>
        /\ \A i \in DOMAIN results :
              IF calls[i].raised = "escaped"
              THEN /\ IsFailure(results[i].result)
                   /\ results[i].result.algorithm_used = results[i].name
              ELSE results[i].result = calls[i].returned

(* the call of the first engine raises, the other two return a timetable *)
C12_Witness ==
    /\ pc = "compare_returned"
    /\ calls[1].raised = "escaped"
    /\ ~results[1].result.success
    /\ results[2].result.success /\ results[2].result.timetable_slots # <<>>
    /\ results[3].result.success /\ results[3].result.timetable_slots # <<>>

(* C13: optimize with an algorithm name other than csp, genetic, ilp returns
   a result with success false, no slots, score 0 and a message that lists
   the available engines, and calls no engine. *)
C13_UnknownAlgorithm ==
    (pc \in {"optimize_returned", "optimize_answered"}
        /\ algorithm \notin {None, "csp", "genetic", "ilp"}
        /\ (pc = "optimize_answered" => response.status = 200)) =>
        /\ IsFailure(result)
        /\ result.message
               = "Unknown algorithm: " \o algorithm \o ". Available: ['csp', 'genetic', 'ilp']"
        /\ result.algorithm_used = algorithm
        /\ calls = <<>>
        /\ pc = "optimize_answered" => response.body = result

(* an unknown name, on a request no validator accepts, after an earlier
   request was served *)
C13_Witness ==
    /\ pc = "optimize_returned"
    /\ algorithm = "quantum"
    /\ solves = 1
    /\ csp_validate_constraints(request) # <<>>
    /\ ~result.success

(* C15 as stated: POST /optimize answers 400 with the violation list whenever
   validate_request returns a violation, and answers 500 only when the call
   of the solver raised. *)
C15_ValidationAnswers400 ==
    pc = "optimize_answered" =>
        /\ validate_request(request) # <<>> =>
              /\ response.status = 400
              /\ response.body.violations = validate_request(request)
        /\ response.status = 500 => \E i \in DOMAIN calls : calls[i].raised = "escaped"

(* C17: an exception raised inside an engine's try block (while the model is
   built, solved or extracted) becomes the result the engine returns:
   success false, message "Optimization failed: " followed by str(e), no
   slots, score 0; the caller receives that result, not the exception. *)
C17_ExceptionsBecomeFailures ==
    \A i \in DOMAIN calls :
        calls[i].raised = "caught" =>
            /\ IsFailure(calls[i].returned)
            /\ calls[i].returned.message = "Optimization failed: " \o calls[i].detail
            /\ calls[i].returned.algorithm_used
                   \in {"CSP-OR-Tools", "Genetic-Algorithm", "ILP-PuLP"}
            /\ IF Len(calls) = 1
               THEN result = calls[i].returned
               ELSE results[i].result = calls[i].returned

(* _crossover raises in the genetic engine during a comparison in which the
   other two engines succeed *)
C17_Witness ==
    /\ pc = "compare_answered"
    /\ response.status = 200
    /\ calls[2].raised = "caught"
    /\ calls[2].detail = CrossoverError
    /\ results[1].result.success
    /\ results[3].result.success

(* C14: the result of a solve is determined by the request of that solve and
   its own random choices, whatever the engine instance has solved before:
   the individual behind a successful GA result was tracked during the solve
   that returns it, its slot list has one slot per credit of the request,
   and the course_id, faculty_id and room_id of its slots belong to the
   request. *)
C14_NoStateBetweenSolves ==
    Succeeded("Genetic-Algorithm") =>
        /\ best_individual.in_population
        /\ result.timetable_slots = best_individual.timetable_slots
        /\ Len(result.timetable_slots) = TotalCredits(request)
        /\ \A i \in DOMAIN result.timetable_slots :
              /\ \E c \in Indices(request.courses) :
                    result.timetable_slots[i].course_id = request.courses[c].id
              /\ \E k \in Indices(request.faculty) :
                    result.timetable_slots[i].faculty_id = request.faculty[k].id
              /\ \E m \in Indices(request.rooms) :
                    result.timetable_slots[i].room_id = request.rooms[m].id

-----------------------------------------------------------------------------
(* Specification SpecAsync: /optimize/async, its background task and       *)
(* /optimize/status/{job_id} on the module-level store of api.py           *)

MaxJobs == 2      \* calls of /optimize/async

(* the placeholder /optimize/async stores for an accepted job *)
InProgress(alg) ==
    FailureResult("Optimization in progress", IF alg = None THEN "unknown" ELSE alg)

(* optimization_results[job_id] = value *)
Store(store, job_id, value) ==
    [id \in DOMAIN store \cup {job_id} |-> IF id = job_id THEN value ELSE store[id]]

(* GET /optimize/status/{job_id} *)
get_optimization_status(job_id, store) ==
    IF job_id \notin DOMAIN store
    THEN Response(404, [message |-> "Job not found", job_id |-> job_id])
    ELSE IF store[job_id].message = "Optimization in progress"
         THEN Response(200, [job_id |-> job_id, status |-> "running"])
         ELSE IF store[job_id].success
              THEN Response(200, [job_id |-> job_id, status |-> "completed",
                                  result |-> store[job_id]])
              ELSE Response(200, [job_id |-> job_id, status |-> "failed",
                                  result |-> store[job_id]])

AsyncInit ==
    /\ request = EmptyRequest
    /\ algorithm = None
    /\ pc = "ready"
    /\ timetable_slots = <<>>
    /\ population = <<>>
    /\ generation = 0
    /\ evaluations = {}
    /\ best_individual = Null
    /\ result = Null
    /\ violations = <<>>
    /\ solves = 0
    /\ ServiceIdle

(* POST /optimize/async with a job_id of the client, or with none: uuid4
   then draws an id the store does not hold. `solves` counts the calls. *)
PostAsync ==
    /\ solves < MaxJobs
    /\ solves' = solves + 1
    /\ Arrives
    /\ violations' = validate_request(request')
    /\ \E job_id \in JobIds \cup {None} :
       \E id \in IF job_id = None THEN JobIds \ DOMAIN optimization_results ELSE {job_id} :
          IF validate_request(request') # <<>>
          THEN /\ response' = EndpointExcept("Failed to start optimization",
                                             ValidationFailed(validate_request(request')))
               /\ UNCHANGED async
          ELSE /\ optimization_results' = Store(optimization_results, id, InProgress(algorithm'))
               /\ background_tasks' = Append(background_tasks,
                                             [job_id |-> id, request |-> request',
                                              algorithm |-> algorithm'])
               /\ jobs' = [jobs EXCEPT ![id] = [accepted |-> @.accepted + 1,
                                                stored |-> @.stored, pending |-> TRUE]]
               /\ response' = Response(200, [job_id |-> id, status |-> "started"])
    /\ UNCHANGED <<pc, timetable_slots, population, generation, evaluations, best_individual,
                   result, results, calls>>

(* run_optimization_async: one background task runs *)
RunAsync ==
    /\ \E t \in DOMAIN background_tasks :
          LET task == background_tasks[t]
          IN /\ \E d \in engine_dispatch(task.request, task.algorithm, best_individual) :
                   /\ optimization_results' =
                          Store(optimization_results, task.job_id,
                                IF d.escaped
                                THEN FailureResult("Optimization failed: " \o RuntimeFailure,
                                                   IF task.algorithm = None THEN "unknown"
                                                   ELSE task.algorithm)
                                ELSE d.value)
                   /\ best_individual' = d.best
             /\ background_tasks' = [i \in 1..(Len(background_tasks) - 1) |->
                                        IF i < t THEN background_tasks[i]
                                        ELSE background_tasks[i + 1]]
             /\ jobs' = [jobs EXCEPT ![task.job_id] = [accepted |-> @.accepted,
                                                         stored |-> @.stored + 1,
                                                         pending |-> FALSE]]
    /\ UNCHANGED <<request, algorithm, pc, timetable_slots, population, generation, evaluations,
                   result, violations, solves, results, response, calls>>

(* GET /optimize/status/{job_id} *)
GetStatus ==
    /\ \E job_id \in JobIds :
          response' = get_optimization_status(job_id, optimization_results)
    /\ UNCHANGED <<request, algorithm, pc, timetable_slots, population, generation, evaluations,
                   best_individual, result, violations, solves, results, calls, async>>

AsyncNext ==
    \/ PostAsync
    \/ RunAsync
    \/ GetStatus

SpecAsync == AsyncInit /\ [][AsyncNext]_vars

(* C16: /optimize/status/{id} answers 404 for a job id /optimize/async never
   accepted; for an accepted id it answers exactly one of running, completed,
   failed: running from the acceptance until the background solve has stored
   its result, and from then on completed if the stored result has
   success = true and failed otherwise. *)
C16_StatusFollowsJob ==
    \A id \in JobIds :
        LET answer == get_optimization_status(id, optimization_results)
        IN /\ jobs[id].accepted = 0 <=> answer.status = 404
           /\ jobs[id].accepted > 0 =>
                 /\ answer.status = 200
                 /\ answer.body.status \in {"running", "completed", "failed"}
                 /\ answer.body.status = "running" <=> jobs[id].stored = 0
                 /\ jobs[id].stored > 0 =>
                       /\ answer.body.result = optimization_results[id]
                       /\ answer.body.status = "completed"
                              <=> optimization_results[id].success

(* what the status endpoint does guarantee: 404 exactly for the ids never
   accepted; running exactly while no result was stored under the id since
   its latest acceptance; otherwise completed or failed by the success of
   the result the store holds *)
StatusFollowsLatestAcceptance ==
    \A id \in JobIds :
        LET answer == get_optimization_status(id, optimization_results)
        IN /\ jobs[id].accepted = 0 <=> answer.status = 404
           /\ jobs[id].accepted > 0 =>
                 /\ answer.status = 200
                 /\ answer.body.status \in {"running", "completed", "failed"}
                 /\ answer.body.status = "running" <=> jobs[id].pending
                 /\ ~jobs[id].pending =>
                       /\ answer.body.result = optimization_results[id]
                       /\ answer.body.status = "completed"
                              <=> optimization_results[id].success

(* one id was never accepted; the other was accepted once, its solve has
   failed, and the status just reported says so *)
StatusOfFailedJobReached ==
    /\ \E id \in JobIds : jobs[id].accepted = 0
    /\ \E id \in JobIds :
          /\ jobs[id] = [accepted |-> 1, stored |-> 1, pending |-> FALSE]
          /\ ~optimization_results[id].success
          /\ response = get_optimization_status(id, optimization_results)
          /\ response.body.status = "failed"

-----------------------------------------------------------------------------
(* Specification SpecLab: the genetic engine on a lab course that needs a  *)
(* block of consecutive slots                                              *)

LabSlotsPerDay == 2      \* config.slots_per_day of the lab requests
LabBlock == 2            \* consecutive_slots_required (and credits) of the lab

LabSpecializations == {<<"m">>, <<"x">>}

(* one lab course "Ma", one faculty, one lab room *)
LabRequest(spec) ==
    OptimizationRequest(
        TimetableConfig(LabSlotsPerDay),
        <<CourseData(CourseId(1), CourseId(1), <<"M", "a">>, LabBlock, SolveStrength,
                     TRUE, LabBlock)>>,
        <<FacultyData(FacultyId(1), <<spec>>, LabBlock)>>,
        <<RoomData(RoomId(1), 40)>>,
        {})

LabInit ==
    /\ \E spec \in LabSpecializations : request = LabRequest(spec)
    /\ algorithm = None
    /\ pc = "ready"
    /\ timetable_slots = <<>>
    /\ population = <<>>
    /\ generation = 0
    /\ evaluations = {}
    /\ best_individual = Null
    /\ result = Null
    /\ violations = <<>>
    /\ solves = 0
    /\ ServiceIdle

(* a chromosome of two slots or more never makes _crossover raise *)
LabNext ==
    \/ GARejects
    \/ GAInitialize
    \/ GAGeneration
    \/ GAExtract

SpecLab == LabInit /\ [][LabNext]_vars

(* the index of the slot of the day that starts at time_start *)
SlotIndex(config, time_start) ==
    CHOOSE s \in 0..(config.slots_per_day - 1) : TimeStart(config, s) = time_start

(* the slots of a course form blocks of L consecutive slots of one day:
   each of them lies in a run of L slot indices of its day that the course
   holds completely *)
FormsBlocks(req, slots, course) ==
    LET L == course.consecutive_slots_required
        own == {i \in DOMAIN slots : slots[i].course_id = course.id}
        Held(day, s) == \E i \in own : /\ slots[i].day = day
                                       /\ SlotIndex(req.config, slots[i].time_start) = s
    IN /\ \A i \in own :
             \E start \in 0..(req.config.slots_per_day - L) :
                /\ SlotIndex(req.config, slots[i].time_start) \in start..(start + L - 1)
                /\ \A s \in start..(start + L - 1) : Held(slots[i].day, s)
       /\ \A i, j \in own : i # j => ~(SameTime(slots[i], slots[j]))

(* C20: in a successful GA result the slots of a lab course with
   requires_lab = true and consecutive_slots_required = L > 1 lie on one day
   at adjacent slot indices: they form blocks of L consecutive slots. *)
C20_LabSlotsFormBlock ==
    Succeeded("Genetic-Algorithm") =>
        \A c \in Indices(request.courses) :
            (request.courses[c].requires_lab
                /\ request.courses[c].consecutive_slots_required > 1) =>
                FormsBlocks(request, result.timetable_slots, request.courses[c])

(* the initial individuals of a lab request do hold the block *)
LabBlockLaidOut ==
    (pc = "evolve" /\ generation = 0 /\ best_individual = Null) =>
        \A i \in DOMAIN population :
            FormsBlocks(request, population[i].timetable_slots, request.courses[1])

-----------------------------------------------------------------------------
(* Specification SpecRooms: the genetic engine on two courses and rooms of *)
(* two sizes                                                               *)

(* capacities of the rooms: 20 is below the student_strength of the courses,
   40 above it *)
RoomCapacities == {<<20>>, <<20, 40>>}

(* two courses "Ma" and "Map" of one credit and 30 students, one faculty *)
RoomsRequest(spec, capacities) ==
    OptimizationRequest(
        TimetableConfig(1),
        <<CourseData(CourseId(1), CourseId(1), <<"M", "a">>, 1, SolveStrength, FALSE, 1),
          CourseData(CourseId(2), CourseId(2), <<"M", "a", "p">>, 1, SolveStrength, FALSE, 1)>>,
        <<FacultyData(FacultyId(1), <<spec>>, 2)>>,
        [m \in DOMAIN capacities |-> RoomData(RoomId(m), capacities[m])],
        {})

RoomsInit ==
    /\ \E spec \in LabSpecializations, capacities \in RoomCapacities :
          request = RoomsRequest(spec, capacities)
    /\ algorithm = None
    /\ pc = "ready"
    /\ timetable_slots = <<>>
    /\ population = <<>>
    /\ generation = 0
    /\ evaluations = {}
    /\ best_individual = Null
    /\ result = Null
    /\ violations = <<>>
    /\ solves = 0
    /\ ServiceIdle

RoomsNext ==
    \/ GARejects
    \/ GAInitialize
    \/ GAGeneration
    \/ GAExtract

SpecRooms == RoomsInit /\ [][RoomsNext]_vars

(* the course / the room of the request with the given id *)
CourseOf(req, id) == req.courses[CHOOSE c \in Indices(req.courses) : req.courses[c].id = id]

RoomOf(req, id) == req.rooms[CHOOSE m \in Indices(req.rooms) : req.rooms[m].id = id]

(* the positions of a slot list whose room is smaller than the course *)
Overcrowded(req, slots) ==
    {i \in DOMAIN slots :
        RoomOf(req, slots[i].room_id).capacity < CourseOf(req, slots[i].course_id).student_strength}

(* C21: on every successful result of any engine, the room of every output
   slot has a capacity of at least the student_strength of the slot's
   course. *)
C21_RoomHoldsCourse ==
    (pc = "done" /\ result.success) => Overcrowded(request, result.timetable_slots) = {}

(* the initial individuals of a request whose courses all have a suitable
   room use suitable rooms only *)
SuitableRoomsLaidOut ==
    (pc = "evolve" /\ generation = 0 /\ CoursesWithoutRoom(request) = <<>>) =>
        \A i \in DOMAIN population : Overcrowded(request, population[i].timetable_slots) = {}

(* C22: if some course of the request has no room with capacity >= its
   student_strength, validation reports "No room with sufficient capacity
   for course <code>" for it and no engine searches: no population is
   built, and optimize returns success = false with no slots. *)
C22_NoSearchWithoutRoom ==
    CoursesWithoutRoom(request) # <<>> =>
        /\ \A i \in DOMAIN CoursesWithoutRoom(request) :
              Violation("No room with sufficient capacity for course",
                        CoursesWithoutRoom(request)[i].code, 0, 0)
                  \in Range(validate_request(request))
        /\ population = <<>>
        /\ pc = "done" => (~result.success /\ result.timetable_slots = <<>>)

(* C23: the individual a successful GA solve returns has a fitness greater
   than or equal to the fitness of every individual evaluated in any
   generation of that solve. *)
C23_ReturnsGlobalBest ==
    Succeeded("Genetic-Algorithm") =>
        \A fitness \in evaluations : RLe(fitness, result.optimization_score)

(* C24: a GA solve runs at most `generations` iterations of its loop, and it
   stops at the first generation in which some evaluated individual has a
   fitness >= 100: the loop never starts another iteration after a
   generation whose evaluated population held such an individual. *)
C24_StopsAtPerfect ==
    pc = "evolve" =>
        /\ generation < Generations
        /\ \A fitness \in evaluations : RLt(fitness, Rat(100, 1))

(* the loop itself is bounded: an iteration is started only with an index
   below `generations`, and the solve returns after the last one *)
LoopBounded ==
    /\ generation < Generations
    /\ pc = "evolve" => Cardinality(evaluations) <= generation

(* the ids of the faculty / of the rooms of a request *)
FacultyIds(req) == {req.faculty[k].id : k \in Indices(req.faculty)}

RoomIds(req) == {req.rooms[m].id : m \in Indices(req.rooms)}

(* child is a mutation of the slot list `slots`: same length, at most one
   position differs, and there only day, faculty_id and room_id, drawn from
   the weekdays and the request *)
IsMutationOf(child, slots, req) ==
    /\ Len(child) = Len(slots)
    /\ Cardinality({i \in DOMAIN slots : child[i] # slots[i]}) <= 1
    /\ \A i \in DOMAIN slots :
          /\ child[i].course_id = slots[i].course_id
          /\ child[i].time_start = slots[i].time_start
          /\ child[i].time_end = slots[i].time_end
          /\ child[i].student_groups = slots[i].student_groups
          /\ child[i] # slots[i] =>
                /\ child[i].day \in Range(Days)
                /\ child[i].faculty_id \in FacultyIds(req)
                /\ child[i].room_id \in RoomIds(req)

(* C25: _mutate returns an individual that differs from the one passed in at
   one slot position at most; there only day, faculty_id and room_id may
   change, to a weekday, a faculty and a room of the request, while
   course_id, time_start, time_end and student_groups are retained.  The
   slot list passed in is left as it was: the tracked best individual, which
   is the same object as a member of the population, keeps its slots through
   a generation unless a member of the new population replaces it. *)
C25_MutationChangesOneSlot ==
    /\ [](pc = "evolve" =>
            \A i \in DOMAIN population :
                \A child \in mutate(population[i], request) :
                    IsMutationOf(child.timetable_slots, population[i].timetable_slots, request))
    /\ [][(pc = "evolve" /\ best_individual # Null) =>
            \/ best_individual'.timetable_slots = best_individual.timetable_slots
            \/ \E i \in DOMAIN population' :
                  best_individual'.timetable_slots = population'[i].timetable_slots]_vars

(* a mutated child is the population of the second generation: it uses a
   room that no initial individual of the request uses, and the best
   individual tracked is an evaluated one with other slots *)
C25_Witness ==
    /\ pc = "extract"
    /\ CoursesWithoutRoom(request) = <<>>
    /\ Overcrowded(request, population[1].timetable_slots) # {}
    /\ best_individual.timetable_slots # population[1].timetable_slots
    /\ IsMutationOf(population[1].timetable_slots, best_individual.timetable_slots, request)

(* the pairs of children a single cut of two slot lists can give *)
SingleCuts(s1, s2) ==
    {<<SubSeq(s1, 1, cut) \o SubSeq(s2, cut + 1, Len(s2)),
       SubSeq(s2, 1, cut) \o SubSeq(s1, cut + 1, Len(s1))>> : cut \in 1..(Len(s1) - 1)}

(* C26: whenever _crossover is applied to two parents of a population
   (chromosomes of equal length n >= 1) it does not raise, and it returns
   child1 = p1[:cut] + p2[cut:] and child2 = p2[:cut] + p1[cut:] of length n
   for a cut in [1, n); so a GA solve of a validated request whose total
   credits is 1 does not end in an "Optimization failed" result because of
   crossover. *)
C26_CrossoverNeverRaises ==
    /\ pc = "evolve" =>
          \A i, j \in DOMAIN population :
              /\ ~CrossoverRaises(population[i], population[j])
              /\ \A kids \in crossover(population[i], population[j]) :
                    /\ Len(kids[1].timetable_slots) = Len(population[i].timetable_slots)
                    /\ Len(kids[2].timetable_slots) = Len(population[i].timetable_slots)
                    /\ <<kids[1].timetable_slots, kids[2].timetable_slots>>
                           \in SingleCuts(population[i].timetable_slots,
                                          population[j].timetable_slots)
    /\ (pc = "done" /\ algorithm = "genetic" /\ validate_request(request) = <<>>) =>
          result.message # "Optimization failed: " \o CrossoverError

(* on chromosomes of two slots or more _crossover does what the claim says *)
CrossoverCutsOnce ==
    (pc = "evolve" /\ TotalCredits(request) >= 2) =>
        \A i, j \in DOMAIN population :
            /\ ~CrossoverRaises(population[i], population[j])
            /\ crossover(population[i], population[j]) # {}
            /\ \A kids \in crossover(population[i], population[j]) :
                  <<kids[1].timetable_slots, kids[2].timetable_slots>>
                      \in SingleCuts(population[i].timetable_slots,
                                     population[j].timetable_slots)

(* Q(c) as the spec defines it: the faculty with a specialization that is a
   substring of the course name, both compared case-insensitively *)
QualifiedCaseInsensitive(req, course) ==
    SelectSeq(req.faculty,
              LAMBDA f : \E i \in DOMAIN f.specializations :
                  IsSubstring(Lower(f.specializations[i]), Lower(course.name)))

(* the faculty the qualification constraint of the ILP engine treats as
   qualified *)
ilp_qualified_faculty(req, course) == SelectSeq(req.faculty, LAMBDA f : ILPQualified(f, course))

(* C28: the qualified-faculty set is the same wherever it is computed (GA
   validation, GA initial assignment, ILP qualification constraint): the
   faculty with a specialization that is a substring of the course name,
   case-insensitively; GA validation reports "No qualified faculty for
   course <code>" exactly when that set is empty. *)
C28_OneQualifiedSet ==
    (pc = "done" /\ algorithm = "genetic") =>
        \A c \in Indices(request.courses) :
            LET course == request.courses[c]
                Q == QualifiedCaseInsensitive(request, course)
            IN /\ ga_qualified_faculty(request, course) = Q
               /\ ilp_qualified_faculty(request, course) = Q
               /\ Violation("No qualified faculty for course", course.code, 0, 0)
                      \in Range(violations) <=> Q = <<>>

(* the ILP engine does compute the set of the spec *)
ILPQualifiedIsCaseInsensitive ==
    \A c \in Indices(request.courses) :
        ilp_qualified_faculty(request, request.courses[c])
            = QualifiedCaseInsensitive(request, request.courses[c])

(* two slots of a list held by one faculty member or one room at the same
   day and time_start *)
Collides(slots, i, j, field) ==
    /\ i < j
    /\ SameTime(slots[i], slots[j])
    /\ slots[i][field] = slots[j][field]

Collisions(slots) ==
    {t \in (DOMAIN slots) \X (DOMAIN slots) \X {"faculty_conflict", "room_conflict"} :
        Collides(slots, t[1], t[2], FieldOf(t[3]))}

(* every collision of the slots of a result is in its conflicts, and every
   conflict is critical *)
CollisionsListed(res) ==
    /\ \A t \in Collisions(res.timetable_slots) :
          Reported(res.conflicts, TimeKey(res.timetable_slots[t[1]]), t[3],
                   res.timetable_slots[t[1]][FieldOf(t[3])]) # {}
    /\ \A n \in DOMAIN res.conflicts : res.conflicts[n].severity = "critical"

(* C27 as stated: a successful CSP result may place two slots of one faculty
   member or one room at the same (day, time_start); it lists the collisions
   in conflicts, and its score is reduced by 5 per conflict but remains above
   zero. *)
C27_ScoreReducedPerConflict ==
    (Succeeded("CSP-OR-Tools") /\ Collisions(result.timetable_slots) # {}) =>
        /\ CollisionsListed(result)
        /\ RLe(result.optimization_score, Rat(100 - 5 * Len(result.conflicts), 1))
        /\ RLt(Rat(0, 1), result.optimization_score)

(* C27 amended: a successful CSP result may place two slots of one faculty
   member or one room at the same (day, time_start); it lists the collisions
   in conflicts, and its score is
   max(0, min(100, 100 - 5 * |conflicts| + bonus)) with the balance bonus of
   at most 20: up to four conflicts can leave the score at 100, and with
   fewer than 20 conflicts the score is above zero. *)
C27_CSPSuccessCarriesConflicts ==
    (Succeeded("CSP-OR-Tools") /\ Collisions(result.timetable_slots) # {}) =>
        LET n == Len(result.conflicts)
            workload == result.workload_distribution
            variance == VarianceOfCounts(workload)
            bonus == IF DOMAIN workload = {} \/ RLt(Rat(20, 1), variance) THEN Rat(0, 1)
                     ELSE RAdd(Rat(20, 1), RScale(-1, variance))
        IN /\ CollisionsListed(result)
           /\ n >= 1
           /\ RLe(bonus, Rat(20, 1))
           /\ REq(result.optimization_score,
                  Clamp(RAdd(Rat(100 - 5 * n, 1), bonus), Rat(0, 1), Rat(100, 1)))
           /\ n < 20 => RLt(Rat(0, 1), result.optimization_score)

(* a request the CSP validator accepts, two courses sharing the only faculty
   member and the only room; the CSP result holds both at one time, lists a
   faculty and a room conflict, and scores 100 *)
C27_Witness ==
    /\ Succeeded("CSP-OR-Tools")
    /\ csp_validate_constraints(request) = <<>>
    /\ Len(request.courses) = 2
    /\ Len(request.faculty) = 1
    /\ Len(request.rooms) = 1
    /\ \E t \in Collisions(result.timetable_slots) : t[3] = "faculty_conflict"
    /\ \E t \in Collisions(result.timetable_slots) : t[3] = "room_conflict"
    /\ Len(result.conflicts) = 2
    /\ REq(result.optimization_score, Rat(100, 1))

(* a CSP result with collisions whose score is below 100 *)
CollisionsBelowFullScore ==
    /\ Succeeded("CSP-OR-Tools")
    /\ Collisions(result.timetable_slots) # {}
    /\ RLt(result.optimization_score, Rat(100, 1))

RECURSIVE ChromosomeLayout(_, _)
(* the course_ids of a chromosome as _create_random_individual lays it out:
   courses 1..n in request order, `credits` positions each *)
ChromosomeLayout(req, n) ==
    IF n = 0 THEN <<>>
    ELSE ChromosomeLayout(req, n - 1) \o [i \in 1..req.courses[n].credits |-> req.courses[n].id]

HasLayout(req, individual) ==
    [i \in DOMAIN individual.timetable_slots |-> individual.timetable_slots[i].course_id]
        = ChromosomeLayout(req, Len(req.courses))

(* C29: in every generation of a GA solve every individual of the population
   (initial, selected, crossed over or mutated) has the length sum of
   credits and at every position the course_id of the initial layout, so
   each course keeps exactly `credits` slots. *)
C29_LayoutPreserved ==
    \A i \in DOMAIN population :
        /\ Len(population[i].timetable_slots) = TotalCredits(request)
        /\ HasLayout(request, population[i])
        /\ \A c \in Indices(request.courses) :
              Cardinality({k \in DOMAIN population[i].timetable_slots :
                              population[i].timetable_slots[k].course_id = request.courses[c].id})
                  = request.courses[c].credits

(* the population of the second generation is a child made by crossover or
   mutation, not yet evaluated, of a chromosome of two courses *)
C29_Witness ==
    /\ pc = "evolve"
    /\ generation = 1
    /\ Len(request.courses) = 2
    /\ population[1].fitness = Rat(0, 1)
    /\ population[1].timetable_slots[1].course_id # population[1].timetable_slots[2].course_id
    /\ evaluations # {}

(* the response is a status answer that reports a job as completed or failed *)
ReportedTerminal ==
    /\ response # Null
    /\ response.status = 200
    /\ response.body.status \in {"completed", "failed"}

(* C30: async job status is monotonic: once /optimize/status has reported a
   job id as completed or failed, every later status query for that id
   reports the same terminal status and the same result; no /optimize/async
   call, with a fresh or an already used job_id, and no background task
   returns the job to running or replaces its stored result. *)
C30_StatusMonotonic ==
    [][ReportedTerminal =>
           get_optimization_status(response.body.job_id, optimization_results') = response]_vars

(* a terminal status stays as reported for an id that /optimize/async has
   accepted once only *)
StatusMonotonicWithoutReuse ==
    [][(ReportedTerminal /\ jobs'[response.body.job_id].accepted = 1) =>
           get_optimization_status(response.body.job_id, optimization_results') = response]_vars

====
